---- MODULE Spec2Model ----
(***************************************************************************)
(* A model of vscode-encrypt-plugin's core: the session password cache     *)
(* (PasswordService) and the encryption service (EncryptionService), both  *)
(* in src/src/services/PasswordService.ts.                                 *)
(*                                                                         *)
(* Strings are sequences of UTF-16 code units (naturals), as in            *)
(* JavaScript.  Byte buffers are sequences of naturals below 256.          *)
(***************************************************************************)
EXTENDS Integers, Sequences, FiniteSets, TLC

(***************************************************************************)
(* Bounds of the model.                                                    *)
(***************************************************************************)
\* The clock runs from 0 to MaxTicks sweep intervals.
MaxTicks == 2
\* init draws rememberPasswordTimeout from 0..MaxTimeout (minutes).
MaxTimeout == 1
\* The cache is explored with at most MaxEntries entries at a time.
MaxEntries == 2

(***************************************************************************)
(* Program constants.                                                      *)
(***************************************************************************)
\* setInterval(..., 60000): the period of the expiration timer, in ms.
SweepIntervalMs == 60000
\* private timeout: number = 30
DefaultTimeout == 30

\* this.timeout * 60 * 1000
TimeoutMs(t) == t * 60 * 1000

(***************************************************************************)
(* The inputs of the cache.                                                *)
(***************************************************************************)
\* A file path is a sequence of segments; a key is a sequence of segments
\* too, so that the template `${folder}:${filePath}` is a concatenation.
PathX == <<"/a", "/x.md.enc">>
PathY == <<"/a", "/y.md.enc">>
PathZ == <<"/b", "/z.md.enc">>
Paths == {PathX, PathY, PathZ}

\* vscode.workspace.workspaceFolders: /a is open, /b is not.
WorkspaceFolders == {<<"/a">>}

Levels == {"workspace", "folder", "file"}
\* The values of encrypt.rememberPasswordTimeout: 0 (no timeout), the small
\* timeouts that expire within the model's clock, and the default.
Timeouts == (0..MaxTimeout) \cup {DefaultTimeout}

\* The 'encrypt' section of the workspace configuration, as far as
\* updatePasswordServiceConfig reads it.
Configs ==
    [rememberPassword : BOOLEAN,
     rememberPasswordTimeout : Timeouts,
     rememberPasswordLevel : Levels]

\* Two password/hint pairs (strings are sequences of code units).
PasswordAndHints ==
    { [password |-> <<112, 49>>, hint |-> <<>>],
      [password |-> <<112, 50>>, hint |-> <<104>>] }

\* { password: '', hint: '' }
EmptyPasswordAndHint == [password |-> <<>>, hint |-> <<>>]

(***************************************************************************)
(* Strings and buffers.                                                    *)
(*                                                                         *)
(* A string is the sequence of its UTF-16 code units; a Buffer is the      *)
(* sequence of its bytes.                                                  *)
(***************************************************************************)
\* ENCRYPTED_MARKER '🔐' (U+1F510): the surrogate pair D83D DD10.
MarkerHigh == 55357
MarkerLow == 56592
Marker == <<MarkerHigh, MarkerLow>>
\* HINT_DELIMITER ':'
HintDelimiter == 58
\* COMMENT_PREFIX and COMMENT_SUFFIX '%%'
CommentToken == <<37, 37>>
\* U+FFFD, which the UTF-8 encoder and decoder put for what they cannot code.
ReplacementChar == 65533

IsHighSurrogate(u) == u >= 55296 /\ u <= 56319
IsLowSurrogate(u) == u >= 56320 /\ u <= 57343

\* A string without unpaired surrogates.
RECURSIVE WellFormedFrom(_, _)
WellFormedFrom(s, i) ==
    IF i > Len(s) THEN TRUE
    ELSE IF IsHighSurrogate(s[i])
         THEN i < Len(s) /\ IsLowSurrogate(s[i + 1]) /\ WellFormedFrom(s, i + 2)
         ELSE ~IsLowSurrogate(s[i]) /\ WellFormedFrom(s, i + 1)

WellFormed(s) == WellFormedFrom(s, 1)

\* Buffer.from(s, 'utf8'): an unpaired surrogate is encoded as U+FFFD.
RECURSIVE Utf8EncodeFrom(_, _)
Utf8EncodeFrom(s, i) ==
    IF i > Len(s) THEN <<>>
    ELSE LET u == s[i]
         IN  IF u < 128 THEN <<u>> \o Utf8EncodeFrom(s, i + 1)
             ELSE IF u < 2048
             THEN <<192 + (u \div 64), 128 + (u % 64)>> \o Utf8EncodeFrom(s, i + 1)
             ELSE IF IsHighSurrogate(u) /\ i < Len(s) /\ IsLowSurrogate(s[i + 1])
             THEN LET cp == 65536 + (u - 55296) * 1024 + (s[i + 1] - 56320)
                  IN  <<240 + (cp \div 262144), 128 + ((cp \div 4096) % 64),
                        128 + ((cp \div 64) % 64), 128 + (cp % 64)>>
                      \o Utf8EncodeFrom(s, i + 2)
             ELSE IF IsHighSurrogate(u) \/ IsLowSurrogate(u)
             THEN <<239, 191, 189>> \o Utf8EncodeFrom(s, i + 1)
             ELSE <<224 + (u \div 4096), 128 + ((u \div 64) % 64), 128 + (u % 64)>>
                  \o Utf8EncodeFrom(s, i + 1)

Utf8Encode(s) == Utf8EncodeFrom(s, 1)

IsContinuation(b, i) == i <= Len(b) /\ b[i] >= 128 /\ b[i] <= 191

\* buffer.toString('utf8'): a byte that starts no valid sequence is decoded
\* as U+FFFD.
RECURSIVE Utf8DecodeFrom(_, _)
Utf8DecodeFrom(b, i) ==
    IF i > Len(b) THEN <<>>
    ELSE LET x == b[i]
         IN  IF x < 128 THEN <<x>> \o Utf8DecodeFrom(b, i + 1)
             ELSE IF x >= 194 /\ x <= 223 /\ IsContinuation(b, i + 1)
             THEN <<(x - 192) * 64 + (b[i + 1] - 128)>> \o Utf8DecodeFrom(b, i + 2)
             ELSE IF /\ x >= 224 /\ x <= 239
                     /\ IsContinuation(b, i + 1) /\ IsContinuation(b, i + 2)
                     /\ (x - 224) * 4096 + (b[i + 1] - 128) * 64 >= 2048
                     /\ ~IsHighSurrogate((x - 224) * 4096 + (b[i + 1] - 128) * 64)
                     /\ ~IsLowSurrogate((x - 224) * 4096 + (b[i + 1] - 128) * 64)
             THEN <<(x - 224) * 4096 + (b[i + 1] - 128) * 64 + (b[i + 2] - 128)>>
                  \o Utf8DecodeFrom(b, i + 3)
             ELSE IF /\ x >= 240 /\ x <= 244
                     /\ IsContinuation(b, i + 1) /\ IsContinuation(b, i + 2)
                     /\ IsContinuation(b, i + 3)
                     /\ (x - 240) * 262144 + (b[i + 1] - 128) * 4096 >= 65536
                     /\ (x - 240) * 262144 + (b[i + 1] - 128) * 4096 < 1114112
             THEN LET cp == (x - 240) * 262144 + (b[i + 1] - 128) * 4096
                            + (b[i + 2] - 128) * 64 + (b[i + 3] - 128)
                  IN  <<55296 + ((cp - 65536) \div 1024),
                        56320 + ((cp - 65536) % 1024)>>
                      \o Utf8DecodeFrom(b, i + 4)
             ELSE <<ReplacementChar>> \o Utf8DecodeFrom(b, i + 1)

Utf8Decode(b) == Utf8DecodeFrom(b, 1)

\* buffer.toString('binary') and Buffer.from(s, 'binary'): latin1.
BinaryDecode(b) == b
BinaryEncode(s) == [i \in 1..Len(s) |-> s[i] % 256]

\* The base64 alphabet A-Z a-z 0-9 + /
Base64Char(v) ==
    IF v < 26 THEN 65 + v
    ELSE IF v < 52 THEN 97 + (v - 26)
    ELSE IF v < 62 THEN 48 + (v - 52)
    ELSE IF v = 62 THEN 43
    ELSE 47

\* '='
Base64Pad == 61

IsBase64Digit(c) ==
    \/ c >= 65 /\ c <= 90
    \/ c >= 97 /\ c <= 122
    \/ c >= 48 /\ c <= 57
    \/ c = 43
    \/ c = 47

Base64Value(c) ==
    IF c >= 65 /\ c <= 90 THEN c - 65
    ELSE IF c >= 97 /\ c <= 122 THEN c - 97 + 26
    ELSE IF c >= 48 /\ c <= 57 THEN c - 48 + 52
    ELSE IF c = 43 THEN 62
    ELSE 63

\* buffer.toString('base64')
RECURSIVE Base64EncodeFrom(_, _)
Base64EncodeFrom(b, i) ==
    IF i > Len(b) THEN <<>>
    ELSE IF i = Len(b)
    THEN <<Base64Char(b[i] \div 4), Base64Char((b[i] % 4) * 16),
           Base64Pad, Base64Pad>>
    ELSE IF i + 1 = Len(b)
    THEN <<Base64Char(b[i] \div 4),
           Base64Char((b[i] % 4) * 16 + (b[i + 1] \div 16)),
           Base64Char((b[i + 1] % 16) * 4), Base64Pad>>
    ELSE <<Base64Char(b[i] \div 4),
           Base64Char((b[i] % 4) * 16 + (b[i + 1] \div 16)),
           Base64Char((b[i + 1] % 16) * 4 + (b[i + 2] \div 64)),
           Base64Char(b[i + 2] % 64)>>
         \o Base64EncodeFrom(b, i + 3)

Base64Encode(b) == Base64EncodeFrom(b, 1)

\* The 6-bit values of the base64 digits of s up to the first '='; what is no
\* base64 digit is skipped.
RECURSIVE Base64Digits(_, _)
Base64Digits(s, i) ==
    IF i > Len(s) \/ s[i] = Base64Pad THEN <<>>
    ELSE IF IsBase64Digit(s[i]) THEN <<Base64Value(s[i])>> \o Base64Digits(s, i + 1)
    ELSE Base64Digits(s, i + 1)

RECURSIVE Base64Bytes(_, _)
Base64Bytes(d, i) ==
    IF i + 1 > Len(d) THEN <<>>
    ELSE IF i + 1 = Len(d)
    THEN <<d[i] * 4 + (d[i + 1] \div 16)>>
    ELSE IF i + 2 = Len(d)
    THEN <<d[i] * 4 + (d[i + 1] \div 16),
           (d[i + 1] % 16) * 16 + (d[i + 2] \div 4)>>
    ELSE <<d[i] * 4 + (d[i + 1] \div 16),
           (d[i + 1] % 16) * 16 + (d[i + 2] \div 4),
           (d[i + 2] % 4) * 64 + d[i + 3]>>
         \o Base64Bytes(d, i + 4)

\* Buffer.from(s, 'base64'): lenient, it never throws.
Base64Decode(s) == Base64Bytes(Base64Digits(s, 1), 1)

\* buffer.subarray(from, to), with offsets counted from 0.
Subarray(b, from, to) ==
    IF from >= Len(b) \/ to <= from THEN <<>>
    ELSE SubSeq(b, from + 1, IF to > Len(b) THEN Len(b) ELSE to)

(***************************************************************************)
(* Node's crypto module, as EncryptionService uses it.                     *)
(*                                                                         *)
(* PBKDF2 and AES-256-GCM are idealised: a derived key is the record of    *)
(* what it was derived from, so that two keys are equal only if password   *)
(* bytes, salt, iteration count, length and digest are; the cipher adds a  *)
(* keystream to the plaintext byte by byte, as counter mode does; the tag  *)
(* is a checksum of key, iv and ciphertext that differs whenever one byte  *)
(* of them does.                                                           *)
(***************************************************************************)
KEY_LENGTH == 32
IV_LENGTH == 16
SALT_LENGTH == 16
AUTH_TAG_LENGTH == 16
ITERATIONS == 210000

\* The outcomes of crypto.randomBytes that the model draws from.
MaxSeeds == 2
Seeds == 1..MaxSeeds

\* crypto.randomBytes(n), for the outcome numbered seed
randomBytes(n, seed) == [i \in 1..n |-> (seed * 89 + i * 17) % 256]

\* crypto.pbkdf2Sync(password, salt, iterations, keylen, digest)
pbkdf2Sync(password, salt, iterations, keylen, digest) ==
    [password |-> Utf8Encode(password), salt |-> salt,
     iterations |-> iterations, keylen |-> keylen, digest |-> digest]

RECURSIVE ChecksumFrom(_, _, _)
ChecksumFrom(b, lane, i) ==
    IF i > Len(b) THEN Len(b) + 1
    ELSE ((b[i] + 1) * (((i * 7 + lane * 13) % 250) + 1)
          + ChecksumFrom(b, lane, i + 1)) % 251

\* A checksum of the bytes b, one value below 251 for every lane.
Checksum(b, lane) == ChecksumFrom(b, lane, 1)

KeyChecksum(key, lane) ==
    (Checksum(key.password, lane) * 3 + Checksum(key.salt, lane + 16) * 5
     + key.iterations + key.keylen) % 251

\* The keystream byte for position i.
Keystream(key, iv, i) ==
    (KeyChecksum(key, 1) + Checksum(iv, 2) + i * 17) % 256

\* The 16-byte tag cipher.getAuthTag() returns.
GcmTag(key, iv, ciphertext) ==
    [lane \in 1..AUTH_TAG_LENGTH |->
        (KeyChecksum(key, lane) + Checksum(iv, lane + 32) * 7
         + Checksum(ciphertext, lane + 48) * 11) % 251]

\* createCipheriv('aes-256-gcm', key, iv), update, final, getAuthTag
GcmEncrypt(key, iv, plaintext) ==
    LET ciphertext == [i \in 1..Len(plaintext) |->
                          (plaintext[i] + Keystream(key, iv, i)) % 256]
    IN  [ciphertext |-> ciphertext, authTag |-> GcmTag(key, iv, ciphertext)]

\* The lengths of a tag that setAuthTag accepts when createDecipheriv was
\* given no authTagLength: 128, 120, 112, 104, 96, 64 and 32 bits.
ValidTagLengths == {4, 8, 12, 13, 14, 15, 16}

\* createDecipheriv('aes-256-gcm', key, iv), setAuthTag, update, final.
\* ok is false where one of them throws: createDecipheriv for an empty iv,
\* setAuthTag for a tag of an invalid length, final for a tag that is not
\* the leading bytes of the computed one.
GcmDecrypt(key, iv, ciphertext, authTag) ==
    IF Len(iv) = 0 THEN [ok |-> FALSE, plaintext |-> <<>>]
    ELSE IF Len(authTag) \notin ValidTagLengths
    THEN [ok |-> FALSE, plaintext |-> <<>>]
    ELSE IF SubSeq(GcmTag(key, iv, ciphertext), 1, Len(authTag)) # authTag
    THEN [ok |-> FALSE, plaintext |-> <<>>]
    ELSE [ok |-> TRUE,
          plaintext |-> [i \in 1..Len(ciphertext) |->
                            (ciphertext[i] + 256 - Keystream(key, iv, i)) % 256]]

(***************************************************************************)
(* EncryptionService                                                       *)
(***************************************************************************)
\* An optional string: undefined, or a string.
Undefined == [defined |-> FALSE, value |-> <<>>]
Some(str) == [defined |-> TRUE, value |-> str]
\* JavaScript's truthiness of an optional string.
Truthy(opt) == opt.defined /\ opt.value # <<>>

\* string | null
Null == [isNull |-> TRUE, value |-> <<>>]
Str(str) == [isNull |-> FALSE, value |-> str]

deriveKey(password, salt) ==
    pbkdf2Sync(password, salt, ITERATIONS, KEY_LENGTH, "sha512")

\* A wrong encryptToBase64: the salt and the iv are generated once and
\* kept for every call.
encryptToBase64StoredSaltAndIv(plaintext, password, saltSeed, ivSeed) ==
    LET salt == randomBytes(SALT_LENGTH, 1)
        iv == randomBytes(IV_LENGTH, 1)
        key == deriveKey(password, salt)
        cipher == GcmEncrypt(key, iv, Utf8Encode(plaintext))
        ciphertext == BinaryDecode(cipher.ciphertext)
    IN  [ciphertext |-> Base64Encode(BinaryEncode(ciphertext)),
         salt |-> Base64Encode(salt),
         iv |-> Base64Encode(iv),
         authTag |-> Base64Encode(cipher.authTag)]

\* encryptToBase64(plaintext, password), with the outcomes of the two
\* randomBytes calls
encryptToBase64(plaintext, password, saltSeed, ivSeed) ==
    LET salt == randomBytes(SALT_LENGTH, saltSeed)
        iv == randomBytes(IV_LENGTH, ivSeed)
        key == deriveKey(password, salt)
        cipher == GcmEncrypt(key, iv, Utf8Encode(plaintext))
        ciphertext == BinaryDecode(cipher.ciphertext)
    IN  [ciphertext |-> Base64Encode(BinaryEncode(ciphertext)),
         salt |-> Base64Encode(salt),
         iv |-> Base64Encode(iv),
         authTag |-> Base64Encode(cipher.authTag)]

\* decryptFromBase64 reaches deriveKey: none of the four Buffer.from calls
\* before it has thrown, as Buffer.from does for undefined.
decryptFromBase64DerivesKey(base64Ciphertext, base64Salt, base64Iv, base64AuthTag) ==
    /\ base64Ciphertext.defined
    /\ base64Salt.defined
    /\ base64Iv.defined
    /\ base64AuthTag.defined

\* A wrong decryptFromBase64: the plaintext is read as 'binary', one
\* character for every byte.
decryptFromBase64Binary(base64Ciphertext, password, base64Salt, base64Iv, base64AuthTag) ==
    LET ciphertext == Base64Decode(base64Ciphertext.value)
        salt == Base64Decode(base64Salt.value)
        iv == Base64Decode(base64Iv.value)
        authTag == Base64Decode(base64AuthTag.value)
        key == deriveKey(password, salt)
        decipher == GcmDecrypt(key, iv, ciphertext, authTag)
    IN  IF ~decryptFromBase64DerivesKey(base64Ciphertext, base64Salt,
                                        base64Iv, base64AuthTag)
        THEN Null
        ELSE IF decipher.ok THEN Str(BinaryDecode(decipher.plaintext)) ELSE Null

\* A wrong decryptFromBase64: a tag that setAuthTag does not accept gives
\* the empty string.
decryptFromBase64EmptyForBadTag(base64Ciphertext, password, base64Salt, base64Iv, base64AuthTag) ==
    LET ciphertext == Base64Decode(base64Ciphertext.value)
        salt == Base64Decode(base64Salt.value)
        iv == Base64Decode(base64Iv.value)
        authTag == Base64Decode(base64AuthTag.value)
        key == deriveKey(password, salt)
        decipher == GcmDecrypt(key, iv, ciphertext, authTag)
    IN  IF ~decryptFromBase64DerivesKey(base64Ciphertext, base64Salt,
                                        base64Iv, base64AuthTag)
        THEN Null
        ELSE IF Len(authTag) \notin ValidTagLengths THEN Str(<<>>)
        ELSE IF decipher.ok THEN Str(Utf8Decode(decipher.plaintext)) ELSE Null

\* decryptFromBase64(base64Ciphertext, password, base64Salt, base64Iv,
\* base64AuthTag): null where the try block throws.  Each of the four
\* base64 arguments is a string, or undefined for a field the file lacks.
decryptFromBase64(base64Ciphertext, password, base64Salt, base64Iv, base64AuthTag) ==
    LET ciphertext == Base64Decode(base64Ciphertext.value)
        salt == Base64Decode(base64Salt.value)
        iv == Base64Decode(base64Iv.value)
        authTag == Base64Decode(base64AuthTag.value)
        key == deriveKey(password, salt)
        decipher == GcmDecrypt(key, iv, ciphertext, authTag)
    IN  IF ~decryptFromBase64DerivesKey(base64Ciphertext, base64Salt,
                                        base64Iv, base64AuthTag)
        THEN Null
        ELSE IF decipher.ok THEN Str(Utf8Decode(decipher.plaintext)) ELSE Null

\* encryptFileContent(content, password, hint)
encryptFileContent(content, password, hint, saltSeed, ivSeed) ==
    LET result == encryptToBase64(content, password, saltSeed, ivSeed)
    IN  [version |-> "1.0", hint |-> hint,
         ciphertext |-> Some(result.ciphertext), salt |-> Some(result.salt),
         iv |-> Some(result.iv), authTag |-> Some(result.authTag)]

\* decryptFileData(fileData, password)
decryptFileData(fileData, password) ==
    decryptFromBase64(fileData.ciphertext, password, fileData.salt,
                      fileData.iv, fileData.authTag)

\* encryptInPlace(text, password, hint, showMarker)
encryptInPlace(text, password, hint, showMarker, saltSeed, ivSeed) ==
    LET result == encryptToBase64(text, password, saltSeed, ivSeed)
        salt == Base64Decode(result.salt)
        iv == Base64Decode(result.iv)
        authTag == Base64Decode(result.authTag)
        ciphertext == Base64Decode(result.ciphertext)
        combined == salt \o iv \o authTag \o ciphertext
        combinedBase64 == Base64Encode(combined)
        data == IF Truthy(hint)
                THEN hint.value \o <<HintDelimiter>> \o combinedBase64
                ELSE combinedBase64
        prefix == IF showMarker THEN Marker ELSE CommentToken \o Marker
        suffix == IF showMarker THEN Marker ELSE Marker \o CommentToken
    IN  prefix \o data \o suffix

\* [^:🔐] in a regular expression without the u flag: any code unit but ':'
\* and the two halves of the marker's surrogate pair
IsHintChar(c) == c # HintDelimiter /\ c # MarkerHigh /\ c # MarkerLow

\* [A-Za-z0-9+/=]
IsDataChar(c) == IsBase64Digit(c) \/ c = Base64Pad

\* text has the literal lit at position i
LiteralAt(text, i, lit) ==
    /\ i >= 1
    /\ i + Len(lit) - 1 <= Len(text)
    /\ SubSeq(text, i, i + Len(lit) - 1) = lit

\* The end of the longest run of hint characters that starts at i: the
\* first position that holds none.
RECURSIVE HintRunEnd(_, _)
HintRunEnd(text, i) ==
    IF i <= Len(text) /\ IsHintChar(text[i]) THEN HintRunEnd(text, i + 1) ELSE i

RECURSIVE DataRunEnd(_, _)
DataRunEnd(text, i) ==
    IF i <= Len(text) /\ IsDataChar(text[i]) THEN DataRunEnd(text, i + 1) ELSE i

NoMatch == [matched |-> FALSE, hint |-> Undefined, combinedData |-> <<>>]

\* A match of prefix ([^:🔐]+) : ([A-Za-z0-9+/=]+) suffix that starts at i.
\* Neither class holds the character that must follow its run, so the
\* longest run is the only one that can match.
MatchWithHintAt(text, i, prefix, suffix) ==
    LET hintStart == i + Len(prefix)
        hintEnd == HintRunEnd(text, hintStart)
        dataStart == hintEnd + 1
        dataEnd == DataRunEnd(text, dataStart)
    IN  IF /\ LiteralAt(text, i, prefix)
           /\ hintEnd > hintStart
           /\ LiteralAt(text, hintEnd, <<HintDelimiter>>)
           /\ dataEnd > dataStart
           /\ LiteralAt(text, dataEnd, suffix)
        THEN [matched |-> TRUE,
              hint |-> Some(SubSeq(text, hintStart, hintEnd - 1)),
              combinedData |-> SubSeq(text, dataStart, dataEnd - 1)]
        ELSE NoMatch

\* A match of prefix ([A-Za-z0-9+/=]+) suffix that starts at i.
MatchWithoutHintAt(text, i, prefix, suffix) ==
    LET dataStart == i + Len(prefix)
        dataEnd == DataRunEnd(text, dataStart)
    IN  IF /\ LiteralAt(text, i, prefix)
           /\ dataEnd > dataStart
           /\ LiteralAt(text, dataEnd, suffix)
        THEN [matched |-> TRUE, hint |-> Undefined,
              combinedData |-> SubSeq(text, dataStart, dataEnd - 1)]
        ELSE NoMatch

\* pattern.exec(text): the match that starts leftmost.
Exec(text, withHint, prefix, suffix) ==
    LET At(i) == IF withHint THEN MatchWithHintAt(text, i, prefix, suffix)
                 ELSE MatchWithoutHintAt(text, i, prefix, suffix)
        starts == {i \in 1..Len(text) : At(i).matched}
    IN  IF starts = {} THEN NoMatch
        ELSE At(CHOOSE i \in starts : \A j \in starts : i <= j)

\* parseInPlaceEncrypted(text): the first of the four patterns that matches.
parseInPlaceEncrypted(text) ==
    LET visibleWithHint == Exec(text, TRUE, Marker, Marker)
        visibleWithoutHint == Exec(text, FALSE, Marker, Marker)
        hiddenWithHint ==
            Exec(text, TRUE, CommentToken \o Marker, Marker \o CommentToken)
        hiddenWithoutHint ==
            Exec(text, FALSE, CommentToken \o Marker, Marker \o CommentToken)
    IN  IF visibleWithHint.matched THEN visibleWithHint
        ELSE IF visibleWithoutHint.matched THEN visibleWithoutHint
        ELSE IF hiddenWithHint.matched THEN hiddenWithHint
        ELSE IF hiddenWithoutHint.matched THEN hiddenWithoutHint
        ELSE NoMatch

\* The blob that decryptInPlace decodes from the text.
CombinedBlob(text) ==
    Base64Decode(parseInPlaceEncrypted(text).combinedData)

\* A wrong check in decryptInPlace: the length of the blob is not looked at.
decryptInPlaceDerivesKeyAnyLength(parsed, combined) ==
    parsed.matched

\* decryptInPlace reaches decryptFromBase64 and with it deriveKey: the text
\* has parsed and the blob has at least 48 bytes.
decryptInPlaceDerivesKey(parsed, combined) ==
    /\ parsed.matched
    /\ ~(Len(combined) < SALT_LENGTH + IV_LENGTH + AUTH_TAG_LENGTH)

\* decryptInPlace(encryptedText, password)
decryptInPlace(encryptedText, password) ==
    LET parsed == parseInPlaceEncrypted(encryptedText)
        combined == Base64Decode(parsed.combinedData)
        salt == Subarray(combined, 0, SALT_LENGTH)
        iv == Subarray(combined, SALT_LENGTH, SALT_LENGTH + IV_LENGTH)
        authTag == Subarray(combined, SALT_LENGTH + IV_LENGTH,
                            SALT_LENGTH + IV_LENGTH + AUTH_TAG_LENGTH)
        actualCiphertext ==
            Subarray(combined, SALT_LENGTH + IV_LENGTH + AUTH_TAG_LENGTH,
                     Len(combined))
    IN  IF ~decryptInPlaceDerivesKey(parsed, combined) THEN Null
        ELSE decryptFromBase64(Some(Base64Encode(actualCiphertext)), password,
                               Some(Base64Encode(salt)), Some(Base64Encode(iv)),
                               Some(Base64Encode(authTag)))

\* decryptFileData reaches deriveKey.
decryptFileDataDerivesKey(fileData) ==
    decryptFromBase64DerivesKey(fileData.ciphertext, fileData.salt,
                                fileData.iv, fileData.authTag)

\* The messages the commands show; NoMessage where none is shown.
NoMessage == ""
InvalidFormatMessage == "Invalid encrypted file format"
DecryptionFailedMessage == "Decryption failed. Wrong password?"
ParseFailedMessage == "Could not parse encrypted text"

\* What decryptCurrentFile shows once decryptFileData has returned
\* decryptedContent, for a file that JSON.parse has accepted.
decryptCurrentFileMessage(decryptedContent) ==
    IF decryptedContent = Null THEN DecryptionFailedMessage ELSE NoMessage

\* What decryptSelection shows for the parse of the selected text and for
\* what decryptInPlace has returned with the password typed at the prompt.
decryptSelectionMessage(parsed, decrypted) ==
    IF ~parsed.matched THEN ParseFailedMessage
    ELSE IF decrypted = Null THEN DecryptionFailedMessage
    ELSE NoMessage

VARIABLES
    cache,      \* PasswordService.cache: key -> [password, hint, timestamp]
    active,     \* PasswordService.active
    timeout,    \* PasswordService.timeout (minutes)
    level,      \* PasswordService.level
    now,        \* Date.now() - the time of construction, in ms
    last,       \* the call that has just returned and what it returned
    config,     \* vscode.workspace.getConfiguration('encrypt')
    activated,  \* whether activate() has run
    encCall,    \* the encryption call that has returned, with its arguments
    produced,   \* the EncryptedFileData that call returned
    fileData,   \* the EncryptedFileData as it is read back from the file
    encryptedText,  \* the marker encryptInPlace returned
    selectedText,   \* the text of the document as decryptSelection reads it
    decCall,    \* the parse or decryption call that has returned, and its result
    drawn,      \* what randomBytes returned in the last encryption call
    disk,       \* the files of the workspace: path -> content
    written,    \* the last vscode.workspace.fs.writeFile call
    webview,    \* webviewPanel.webview.html of the custom editor
    document,   \* the text of the document of the active text editor
    panel,      \* DecryptPanel.currentPanel and the options it holds
    command,    \* the selection command that has just returned
    sent,       \* the contents the editor view has posted, in order
    writing     \* the writeFile calls that have not completed yet

cryptoVars ==
    <<encCall, produced, fileData, encryptedText, selectedText, decCall, drawn>>

flowVars == <<disk, written, webview>>

selectionVars == <<document, panel, command>>

saveVars == <<sent, writing>>

vars == <<cache, active, timeout, level, now, last, config, activated,
          encCall, produced, fileData, encryptedText, selectedText, decCall,
          drawn, disk, written, webview, document, panel, command, sent,
          writing>>

\* No encryption call has returned yet.
NoEncCall ==
    [op |-> "none", caller |-> "none", content |-> <<>>, password |-> <<>>,
     hint |-> Undefined, showMarker |-> FALSE]

\* No EncryptedFileData is at hand.
NoFileData ==
    [version |-> "", hint |-> Undefined, ciphertext |-> Undefined,
     salt |-> Undefined, iv |-> Undefined, authTag |-> Undefined]

\* randomBytes has not been called yet.
NoDrawn == [salt |-> <<>>, iv |-> <<>>]

\* What the two randomBytes calls of encryptToBase64 return.
Drawn(saltSeed, ivSeed) ==
    [salt |-> randomBytes(SALT_LENGTH, saltSeed),
     iv |-> randomBytes(IV_LENGTH, ivSeed)]

\* No parse or decryption call has returned yet.
NoDecCall ==
    [op |-> "none", password |-> <<>>, result |-> Null, parsed |-> NoMatch,
     derivedKey |-> FALSE, message |-> NoMessage]

(***************************************************************************)
(* Files.                                                                  *)
(*                                                                         *)
(* A path is the sequence of its segments, the extensions '.md' and '.enc' *)
(* being segments of their own; 'enc' without the dot is another segment.  *)
(***************************************************************************)
\* The document that Encrypt Current File is run on: /a/n.md.
DocMd == <<"/a", "/n", ".md">>

\* The name typed into createEncryptedFile: /a/m.md.enc.
NewMdEnc == <<"/a", "/m", ".md", ".enc">>

\* String.prototype.endsWith
EndsWith(path, suffix) ==
    /\ Len(path) >= Len(suffix)
    /\ SubSeq(path, Len(path) - Len(suffix) + 1, Len(path)) = suffix

\* isEncryptedFile(filePath)
isEncryptedFile(filePath) == EndsWith(filePath, <<".md", ".enc">>)

\* encryptCurrentFile: filePath + (filePath.endsWith('.md') ? 'enc' : '.enc')
encryptedPath(filePath) ==
    filePath \o (IF EndsWith(filePath, <<".md">>) THEN <<"enc">> ELSE <<".enc">>)

\* decryptToFile: filePath.slice(0, -4) for a path that ends in '.md.enc',
\* filePath.replace(/\.enc$/, '') for another
decryptedPath(filePath) ==
    IF EndsWith(filePath, <<".md", ".enc">>)
    THEN SubSeq(filePath, 1, Len(filePath) - 1)
    ELSE IF EndsWith(filePath, <<".enc">>)
         THEN SubSeq(filePath, 1, Len(filePath) - 1)
         ELSE filePath

\* The text of the document /a/n.md: 'hi'.
DocText == <<104, 105>>

\* The paths that the commands read and write.
DiskPaths ==
    {DocMd, encryptedPath(DocMd), NewMdEnc, decryptedPath(NewMdEnc)}

\* What a path holds: nothing, a text, or the JSON of an EncryptedFileData
\* (JSON.stringify leaves out a hint that is undefined and JSON.parse gives
\* the object back).
NoFile == [kind |-> "none", text |-> <<>>, data |-> NoFileData]
TextFile(text) == [kind |-> "text", text |-> text, data |-> NoFileData]
JsonFile(data) == [kind |-> "json", text |-> <<>>, data |-> data]

\* No file has been written.
NoWrite == [by |-> "none", path |-> <<>>, kind |-> "none", source |-> <<>>]

\* fs.writeFile(path, file), called by the function named; source is the
\* encrypted file that the content written comes from, <<>> where it comes
\* from no encrypted file.
Write(by, path, file, source) ==
    [by |-> by, path |-> path, kind |-> file.kind, source |-> source]

\* The custom editor is not open.
NoWebview ==
    [html |-> "none", filePath |-> <<>>, content |-> <<>>, password |-> <<>>,
     by |-> "none", typed |-> <<>>]

\* The document of the active text editor, /a/s.md: 'a hi b', with 'hi'
\* selected.  Offsets count code units from 0, as document.offsetAt does on
\* a document of one line.
EditorPath == <<"/a", "/s", ".md">>
TextBefore == <<97, 32>>
TextAfter == <<32, 98>>
EditorText == TextBefore \o DocText \o TextAfter

\* DecryptPanel.currentPanel is undefined.
NoPanel ==
    [open |-> FALSE, content |-> <<>>, start |-> 0, end |-> 0,
     password |-> <<>>, hint |-> Undefined, showMarker |-> FALSE,
     saved |-> Undefined, saves |-> 0]

\* No selection command has returned yet.
NoCommand ==
    [by |-> "none", confirmPassword |-> FALSE, answers |-> <<>>,
     confirmed |-> FALSE, password |-> <<>>, hint |-> <<>>,
     encrypted |-> <<>>, put |-> FALSE]

(***************************************************************************)
(* PasswordService                                                         *)
(***************************************************************************)
EmptyCache == [k \in {} |-> EmptyPasswordAndHint]

\* vscode.workspace.getWorkspaceFolder(uri): the open folder holding the
\* path, or undefined (the empty sequence here).
getWorkspaceFolder(filePath) ==
    IF <<filePath[1]>> \in WorkspaceFolders THEN <<filePath[1]>> ELSE <<>>

\* A wrong getCacheKey: the 'folder' level keeps the workspace folder only.
getCacheKeyFolderOnly(lvl, filePath) ==
    IF lvl = "workspace" THEN <<"workspace">>
    ELSE IF lvl = "folder"
         THEN LET workspaceFolder == getWorkspaceFolder(filePath)
              IN  IF workspaceFolder # <<>>
                  THEN workspaceFolder
                  ELSE filePath
         ELSE filePath

\* A wrong getCacheKey: the 'file' level keeps the directory only.
getCacheKeyByDirectory(lvl, filePath) ==
    IF lvl = "workspace" THEN <<"workspace">>
    ELSE IF lvl = "folder"
         THEN LET workspaceFolder == getWorkspaceFolder(filePath)
              IN  IF workspaceFolder # <<>>
                  THEN workspaceFolder \o <<":">> \o filePath
                  ELSE filePath
         ELSE <<filePath[1]>>

getCacheKey(lvl, filePath) ==
    IF lvl = "workspace" THEN <<"workspace">>
    ELSE IF lvl = "folder"
         THEN LET workspaceFolder == getWorkspaceFolder(filePath)
              IN  IF workspaceFolder # <<>>
                  THEN workspaceFolder \o <<":">> \o filePath
                  ELSE filePath
         ELSE filePath

\* Map.delete
MapDelete(m, key) == [k \in DOMAIN m \ {key} |-> m[k]]

\* Map.set
MapSet(m, key, entry) ==
    [k \in DOMAIN m \cup {key} |-> IF k = key THEN entry ELSE m[k]]

\* A wrong comparison: an entry expires as soon as its age reaches the
\* timeout.
ExpiredAtTimeout(entry, t, time) == time - entry.timestamp >= TimeoutMs(t)

\* now - entry.timestamp > timeoutMs
Expired(entry, t, time) == time - entry.timestamp > TimeoutMs(t)

\* A wrong removeExpiredEntries: without the early return on timeout 0.
removeExpiredEntriesNoZeroCheck(m, t, time) ==
    [k \in {j \in DOMAIN m : ~Expired(m[j], t, time)} |-> m[k]]

\* The map removeExpiredEntries leaves.
removeExpiredEntries(m, t, time) ==
    IF t = 0 THEN m
    ELSE [k \in {j \in DOMAIN m : ~Expired(m[j], t, time)} |-> m[k]]

\* A wrong get: without the check of the entry's age.
getResultNoExpiry(m, t, lvl, time, filePath) ==
    LET key == getCacheKey(lvl, filePath)
    IN  IF key \in DOMAIN m
        THEN [pair |-> [password |-> m[key].password, hint |-> m[key].hint],
              cache |-> m, branch |-> "hit"]
        ELSE [pair |-> EmptyPasswordAndHint, cache |-> m, branch |-> "miss"]

\* What get returns, and the map it leaves.
getResult(m, t, lvl, time, filePath) ==
    LET key == getCacheKey(lvl, filePath)
    IN  IF key \in DOMAIN m
        THEN IF t > 0 /\ Expired(m[key], t, time)
             THEN [pair |-> EmptyPasswordAndHint, cache |-> MapDelete(m, key),
                   branch |-> "expired"]
             ELSE [pair |-> [password |-> m[key].password, hint |-> m[key].hint],
                   cache |-> m, branch |-> "hit"]
        ELSE [pair |-> EmptyPasswordAndHint, cache |-> m, branch |-> "miss"]

\* A wrong has: without the check of the entry's age.
hasResultNoExpiry(m, t, lvl, time, filePath) ==
    getCacheKey(lvl, filePath) \in DOMAIN m

\* What has returns.
hasResult(m, t, lvl, time, filePath) ==
    LET key == getCacheKey(lvl, filePath)
    IN  IF key \notin DOMAIN m THEN FALSE
        ELSE IF t > 0 THEN (time - m[key].timestamp) <= TimeoutMs(t)
        ELSE TRUE

\* A wrong put: the hint is not stored.
putResultDropsHint(m, act, lvl, time, passwordAndHint, filePath) ==
    IF ~act THEN m
    ELSE MapSet(m, getCacheKey(lvl, filePath),
                [password |-> passwordAndHint.password,
                 hint |-> <<>>,
                 timestamp |-> time])

\* A wrong put: without the early return when the cache is inactive.
putResultIgnoresActive(m, act, lvl, time, passwordAndHint, filePath) ==
    MapSet(m, getCacheKey(lvl, filePath),
           [password |-> passwordAndHint.password,
            hint |-> passwordAndHint.hint,
            timestamp |-> time])

\* The map put leaves.
putResult(m, act, lvl, time, passwordAndHint, filePath) ==
    IF ~act THEN m
    ELSE MapSet(m, getCacheKey(lvl, filePath),
                [password |-> passwordAndHint.password,
                 hint |-> passwordAndHint.hint,
                 timestamp |-> time])

\* A wrong clear: the size is read after the map was cleared.
clearResultCountAfter(m) == [count |-> 0, cache |-> EmptyCache]

\* What clear returns, and the map it leaves.
clearResult(m) == [count |-> Cardinality(DOMAIN m), cache |-> EmptyCache]

Last(op, filePath, pair, bool, count, branch) ==
    [op |-> op, filePath |-> filePath, pair |-> pair, bool |-> bool,
     count |-> count, branch |-> branch]

NoLast(op) == Last(op, <<>>, EmptyPasswordAndHint, FALSE, 0, "")

\* No call has returned a result that its caller still holds.
Idle == NoLast("idle")

\* A wrong init: the cache is cleared when the level changes.
initDropsOnLevelChange(a, t, l) ==
    /\ active' = a
    /\ timeout' = t
    /\ level' = l
    /\ cache' = IF ~a \/ l # level THEN clearResult(cache).cache ELSE cache
    /\ last' = Last("init", <<>>, EmptyPasswordAndHint, FALSE,
                    IF ~a THEN clearResult(cache).count ELSE 0, "")

\* A wrong init: the cache is not cleared when caching is switched off.
initNoClear(a, t, l) ==
    /\ active' = a
    /\ timeout' = t
    /\ level' = l
    /\ cache' = cache
    /\ last' = Last("init", <<>>, EmptyPasswordAndHint, FALSE, 0, "")

Init ==
    /\ cache = EmptyCache
    /\ active = TRUE
    /\ timeout = DefaultTimeout
    /\ level = "workspace"
    /\ now = 0
    /\ last = Idle
    /\ config \in Configs
    /\ activated = FALSE
    /\ encCall = NoEncCall
    /\ produced = NoFileData
    /\ fileData = NoFileData
    /\ encryptedText = <<>>
    /\ selectedText = <<>>
    /\ disk = [path \in DiskPaths |->
                  IF path = DocMd THEN TextFile(DocText) ELSE NoFile]
    /\ written = NoWrite
    /\ webview = NoWebview
    /\ decCall = NoDecCall
    /\ drawn = NoDrawn
    /\ document = EditorText
    /\ panel = NoPanel
    /\ command = NoCommand
    /\ sent = <<>>
    /\ writing = {}

\* init(active, timeout, level); the count this.clear() returns is dropped
\* by the code and kept in last.count here.
init(a, t, l) ==
    /\ active' = a
    /\ timeout' = t
    /\ level' = l
    /\ cache' = IF ~a THEN clearResult(cache).cache ELSE cache
    /\ last' = Last("init", <<>>, EmptyPasswordAndHint, FALSE,
                    IF ~a THEN clearResult(cache).count ELSE 0, "")

\* updatePasswordServiceConfig(), reading the configuration cfg
updatePasswordServiceConfig(cfg) ==
    init(cfg.rememberPassword, cfg.rememberPasswordTimeout,
         cfg.rememberPasswordLevel)

\* activate(context)
activate ==
    /\ last = Idle
    /\ ~activated
    /\ activated' = TRUE
    /\ updatePasswordServiceConfig(config)
    /\ UNCHANGED <<now, config>>
    /\ UNCHANGED <<cryptoVars, flowVars, selectionVars, saveVars>>

\* The user changes the settings; the configWatcher of activate() runs.
\* A change outside the 'encrypt' section leaves the section as it is.
onDidChangeConfiguration(section, newConfig) ==
    /\ last = Idle
    /\ activated
    /\ IF section = "encrypt"
       THEN /\ config' = newConfig
            /\ updatePasswordServiceConfig(config')
       ELSE UNCHANGED <<config, cache, active, timeout, level, last>>
    /\ UNCHANGED <<now, activated>>
    /\ UNCHANGED <<cryptoVars, flowVars, selectionVars, saveVars>>

\* The timer's callback: removeExpiredEntries().  The timer is started by
\* the constructor, so its first run is no earlier than one interval later.
Sweep ==
    /\ last = Idle
    /\ now >= SweepIntervalMs
    /\ cache' = removeExpiredEntries(cache, timeout, now)
    /\ last' = NoLast("sweep")
    /\ UNCHANGED <<active, timeout, level, now, config, activated>>
    /\ UNCHANGED <<cryptoVars, flowVars, selectionVars, saveVars>>

\* put(passwordAndHint, filePath)
put(passwordAndHint, filePath) ==
    /\ last = Idle
    /\ activated
    /\ \/ ~active
       \/ getCacheKey(level, filePath) \in DOMAIN cache
       \/ Cardinality(DOMAIN cache) < MaxEntries
    /\ cache' = putResult(cache, active, level, now, passwordAndHint, filePath)
    /\ last' = Last("put", filePath, passwordAndHint, FALSE, 0, "")
    /\ UNCHANGED <<active, timeout, level, now, config, activated>>
    /\ UNCHANGED <<cryptoVars, flowVars, selectionVars, saveVars>>

\* get(filePath)
get(filePath) ==
    LET r == getResult(cache, timeout, level, now, filePath)
    IN  /\ last = Idle
        /\ activated
        /\ cache' = r.cache
        /\ last' = Last("get", filePath, r.pair, FALSE, 0, r.branch)
        /\ UNCHANGED <<active, timeout, level, now, config, activated>>
        /\ UNCHANGED <<cryptoVars, flowVars, selectionVars, saveVars>>

\* has(filePath)
has(filePath) ==
    /\ last = Idle
    /\ activated
    /\ last' = Last("has", filePath, EmptyPasswordAndHint,
                    hasResult(cache, timeout, level, now, filePath), 0, "")
    /\ UNCHANGED <<cache, active, timeout, level, now, config, activated>>
    /\ UNCHANGED <<cryptoVars, flowVars, selectionVars, saveVars>>

\* A wrong clearForFile: the whole map is cleared.
clearForFileClearsAll(filePath) ==
    /\ last = Idle
    /\ activated
    /\ cache' = EmptyCache
    /\ last' = Last("clearForFile", filePath, EmptyPasswordAndHint, FALSE, 0, "")
    /\ UNCHANGED <<active, timeout, level, now, config, activated>>
    /\ UNCHANGED <<cryptoVars, flowVars, selectionVars, saveVars>>

\* clearForFile(filePath)
clearForFile(filePath) ==
    /\ last = Idle
    /\ activated
    /\ cache' = MapDelete(cache, getCacheKey(level, filePath))
    /\ last' = Last("clearForFile", filePath, EmptyPasswordAndHint, FALSE, 0, "")
    /\ UNCHANGED <<active, timeout, level, now, config, activated>>
    /\ UNCHANGED <<cryptoVars, flowVars, selectionVars, saveVars>>

\* clear()
clear ==
    LET r == clearResult(cache)
    IN  /\ last = Idle
        /\ activated
        /\ cache' = r.cache
        /\ last' = Last("clear", <<>>, EmptyPasswordAndHint, FALSE, r.count, "")
        /\ UNCHANGED <<active, timeout, level, now, config, activated>>
        /\ UNCHANGED <<cryptoVars, flowVars, selectionVars, saveVars>>

\* Time passes: Date.now() grows by one sweep interval.
Tick ==
    /\ last = Idle
    /\ now < MaxTicks * SweepIntervalMs
    /\ now' = now + SweepIntervalMs
    /\ last' = NoLast("tick")
    /\ UNCHANGED <<cache, active, timeout, level, config, activated>>
    /\ UNCHANGED <<cryptoVars, flowVars, selectionVars, saveVars>>

\* The caller takes the result of the call that has just returned.
Return ==
    /\ last # Idle
    /\ last' = Idle
    /\ UNCHANGED <<cache, active, timeout, level, now, config, activated>>
    /\ UNCHANGED <<cryptoVars, flowVars, selectionVars, saveVars>>

CacheNext ==
    \/ activate
    \/ \E newConfig \in Configs : onDidChangeConfiguration("encrypt", newConfig)
    \/ onDidChangeConfiguration("editor", config)
    \/ Sweep
    \/ \E ph \in PasswordAndHints, f \in Paths : put(ph, f)
    \/ \E f \in Paths : get(f)
    \/ \E f \in Paths : has(f)
    \/ \E f \in Paths : clearForFile(f)
    \/ clear
    \/ Tick
    \/ Return

CacheSpec == Init /\ [][CacheNext]_vars

(***************************************************************************)
(* The callers of EncryptionService: what is encrypted, what happens to    *)
(* the result, and what is then parsed and decrypted.                      *)
(***************************************************************************)
\* The strings encrypted: '', 'hi', 'é€', '😀', and 'h' followed by an
\* unpaired high surrogate.
Plaintexts ==
    {<<>>, <<104, 105>>, <<233, 8364>>, <<55357, 56832>>, <<104, 55357>>}

\* The passwords typed: 'p1', 'p2', 'pä'.
Passwords == {<<112, 49>>, <<112, 50>>, <<112, 228>>}

\* The hints typed: none, '', 'h', 'a:b', '😀', 'x🔐'.
Hints ==
    {Undefined, Some(<<>>), Some(<<104>>), Some(<<97, 58, 98>>),
     Some(<<55357, 56832>>), Some(<<120>> \o Marker)}

\* The hints stored with a file: none, 'h'.
FileHints == {Undefined, Some(<<104>>)}

\* The fields of EncryptedFileData that hold base64 of bytes.
ByteFields == {"ciphertext", "salt", "iv", "authTag"}

\* The changes made to the bytes of a field.
Changes ==
    {"flipFirstBit", "flipLastBit", "keepFour", "dropLast", "appendZero",
     "empty"}

\* The bytes b with bit k of byte i inverted.
FlipBit(b, i, k) ==
    [b EXCEPT ![i] = IF (b[i] \div (2 ^ k)) % 2 = 1
                     THEN b[i] - 2 ^ k
                     ELSE b[i] + 2 ^ k]

Changed(b, change) ==
    CASE change = "flipFirstBit" -> IF Len(b) = 0 THEN b ELSE FlipBit(b, 1, 7)
      [] change = "flipLastBit" -> IF Len(b) = 0 THEN b ELSE FlipBit(b, Len(b), 0)
      [] change = "keepFour" -> IF Len(b) <= 4 THEN b ELSE SubSeq(b, 1, 4)
      [] change = "dropLast" -> IF Len(b) = 0 THEN b ELSE SubSeq(b, 1, Len(b) - 1)
      [] change = "appendZero" -> b \o <<0>>
      [] change = "empty" -> <<>>

\* The settings of package.json.
DefaultConfig ==
    [rememberPassword |-> TRUE, rememberPasswordTimeout |-> DefaultTimeout,
     rememberPasswordLevel |-> "workspace"]

CryptoInit == Init /\ config = DefaultConfig

\* A command calls encryptFileContent(content, password, hint) and writes
\* the result to the file.
EncryptFileContent(content, password, hint, saltSeed, ivSeed) ==
    /\ encCall.op = "none"
    /\ encCall' = [op |-> "encryptFileContent", caller |-> "encryptCurrentFile",
                   content |-> content, password |-> password, hint |-> hint,
                   showMarker |-> FALSE]
    /\ drawn' = Drawn(saltSeed, ivSeed)
    /\ produced' = encryptFileContent(content, password, hint, saltSeed, ivSeed)
    /\ fileData' = produced'
    /\ UNCHANGED <<encryptedText, selectedText, decCall>>
    /\ UNCHANGED <<cache, active, timeout, level, now, last, config, activated,
                 flowVars, selectionVars, saveVars>>

\* Changes from outside are followed for the files and markers that were
\* encrypted with the first salt and the first iv.
ChangedOutside == drawn = Drawn(1, 1)

\* The file is changed outside the extension before it is read back:
\* the bytes of one field are changed and encoded again.
Tamper(field, change) ==
    LET bytes == Base64Decode(fileData[field].value)
    IN  /\ encCall.op = "encryptFileContent"
        /\ encCall.caller = "encryptCurrentFile"
        /\ fileData = produced
        /\ ChangedOutside
        /\ decCall.op = "none"
        /\ Changed(bytes, change) # bytes
        /\ fileData' = [fileData EXCEPT
                            ![field] = Some(Base64Encode(Changed(bytes, change)))]
        /\ UNCHANGED <<encCall, produced, encryptedText, selectedText, decCall, drawn>>
        /\ UNCHANGED <<cache, active, timeout, level, now, last, config, activated,
                 flowVars, selectionVars, saveVars>>

\* The versions written into the file in place of '1.0'.
OtherVersions == {"2.0", ""}

\* The file is changed outside the extension before it is read back:
\* its version is replaced.
ChangeVersion(version) ==
    /\ encCall.op = "encryptFileContent"
    /\ encCall.caller = "encryptCurrentFile"
    /\ fileData = produced
    /\ ChangedOutside
    /\ decCall.op = "none"
    /\ fileData' = [fileData EXCEPT !.version = version]
    /\ UNCHANGED <<encCall, produced, encryptedText, selectedText, decCall, drawn>>
    /\ UNCHANGED <<cache, active, timeout, level, now, last, config, activated,
                 flowVars, selectionVars, saveVars>>

\* The file is changed outside the extension before it is read back:
\* one field is removed from the JSON object.
RemoveField(field) ==
    /\ encCall.op = "encryptFileContent"
    /\ encCall.caller = "encryptCurrentFile"
    /\ fileData = produced
    /\ ChangedOutside
    /\ decCall.op = "none"
    /\ fileData' = [fileData EXCEPT ![field] = Undefined]
    /\ UNCHANGED <<encCall, produced, encryptedText, selectedText, decCall, drawn>>
    /\ UNCHANGED <<cache, active, timeout, level, now, last, config, activated,
                 flowVars, selectionVars, saveVars>>

\* A command calls decryptFileData(fileData, password).
DecryptFileData(password) ==
    /\ encCall.op = "encryptFileContent"
    /\ decCall.op = "none"
    /\ LET decryptedContent == decryptFileData(fileData, password)
       IN  decCall' = [op |-> "decryptFileData", password |-> password,
                       result |-> decryptedContent, parsed |-> NoMatch,
                       derivedKey |-> decryptFileDataDerivesKey(fileData),
                       message |-> decryptCurrentFileMessage(decryptedContent)]
    /\ UNCHANGED <<encCall, produced, fileData, encryptedText, selectedText, drawn>>
    /\ UNCHANGED <<cache, active, timeout, level, now, last, config, activated,
                 flowVars, selectionVars, saveVars>>

\* The custom editor saves: encryptAndSave(document, filePath, content,
\* password), with the password the editor view was opened with and the
\* hint read from the file.
EncryptAndSave(content, saltSeed, ivSeed) ==
    /\ encCall.op = "encryptFileContent"
    /\ decCall.op = "decryptFileData"
    /\ decCall.result # Null
    /\ fileData = produced
    /\ encCall' = [op |-> "encryptFileContent", caller |-> "encryptAndSave",
                   content |-> content, password |-> decCall.password,
                   hint |-> fileData.hint, showMarker |-> FALSE]
    /\ drawn' = Drawn(saltSeed, ivSeed)
    /\ produced' = encryptFileContent(content, decCall.password, fileData.hint,
                                      saltSeed, ivSeed)
    /\ fileData' = produced'
    /\ decCall' = NoDecCall
    /\ UNCHANGED <<encryptedText, selectedText>>
    /\ UNCHANGED <<cache, active, timeout, level, now, last, config, activated,
                 flowVars, selectionVars, saveVars>>

\* A command calls encryptInPlace(text, password, hint, showMarker) and
\* replaces the selection by the result.
EncryptInPlace(text, password, hint, showMarker, saltSeed, ivSeed) ==
    /\ encCall.op = "none"
    /\ encCall' = [op |-> "encryptInPlace", caller |-> "performEncryption",
                   content |-> text, password |-> password, hint |-> hint,
                   showMarker |-> showMarker]
    /\ drawn' = Drawn(saltSeed, ivSeed)
    /\ encryptedText' =
           encryptInPlace(text, password, hint, showMarker, saltSeed, ivSeed)
    /\ selectedText' = encryptedText'
    /\ UNCHANGED <<produced, fileData, decCall>>
    /\ UNCHANGED <<cache, active, timeout, level, now, last, config, activated,
                 flowVars, selectionVars, saveVars>>

\* The changes made to the blob of a marker.
BlobChanges ==
    {"flipSalt", "flipIv", "flipAuthTag", "flipCiphertext", "keepFour",
     "keepFortySeven", "keepFortyEight", "empty"}

ChangedBlob(b, change) ==
    CASE change = "flipSalt" -> FlipBit(b, 1, 7)
      [] change = "flipIv" -> FlipBit(b, SALT_LENGTH + 1, 0)
      [] change = "flipAuthTag" -> FlipBit(b, SALT_LENGTH + IV_LENGTH + 1, 0)
      [] change = "flipCiphertext" -> IF Len(b) = 48 THEN b ELSE FlipBit(b, Len(b), 0)
      [] change = "keepFour" -> SubSeq(b, 1, 4)
      [] change = "keepFortySeven" -> SubSeq(b, 1, 47)
      [] change = "keepFortyEight" -> SubSeq(b, 1, 48)
      [] change = "empty" -> <<>>

\* The text of the document is edited before it is read back: the blob
\* of a visible marker without hint is replaced.
TamperMarker(change) ==
    LET blob == CombinedBlob(encryptedText)
    IN  /\ encCall.op = "encryptInPlace"
        /\ encCall.showMarker
        /\ ~Truthy(encCall.hint)
        /\ selectedText = encryptedText
        /\ ChangedOutside
        /\ decCall.op = "none"
        /\ ChangedBlob(blob, change) # blob
        /\ selectedText' =
               Marker \o Base64Encode(ChangedBlob(blob, change)) \o Marker
        /\ UNCHANGED <<encCall, produced, fileData, encryptedText, decCall, drawn>>
        /\ UNCHANGED <<cache, active, timeout, level, now, last, config, activated,
                 flowVars, selectionVars, saveVars>>

\* The markers that follow the first one in a selection: 'hi' encrypted
\* with 'p1', without hint and with the hint 'h', visible and hidden.
SecondMarkers ==
    {encryptInPlace(<<104, 105>>, <<112, 49>>, hint, showMarker, 1, 1) :
        hint \in FileHints, showMarker \in BOOLEAN}

\* The selection is extended over a space and a second marker.
SelectSecondMarker(second) ==
    /\ encCall.op = "encryptInPlace"
    /\ encCall.content = <<104, 105>>
    /\ encCall.hint \in FileHints
    /\ selectedText = encryptedText
    /\ ChangedOutside
    /\ decCall.op = "none"
    /\ selectedText' = encryptedText \o <<32>> \o second
    /\ UNCHANGED <<encCall, produced, fileData, encryptedText, decCall, drawn>>
    /\ UNCHANGED <<cache, active, timeout, level, now, last, config, activated,
                 flowVars, selectionVars, saveVars>>

\* A command calls parseInPlaceEncrypted(selectedText).
ParseInPlaceEncrypted ==
    LET parsed == parseInPlaceEncrypted(selectedText)
    IN  /\ encCall.op = "encryptInPlace"
        /\ decCall.op = "none"
        /\ decCall' = [op |-> "parseInPlaceEncrypted", password |-> <<>>,
                       result |-> Null, parsed |-> parsed,
                       derivedKey |-> FALSE,
                       message |-> decryptSelectionMessage(parsed, Str(<<>>))]
        /\ UNCHANGED <<encCall, produced, fileData, encryptedText, selectedText, drawn>>
        /\ UNCHANGED <<cache, active, timeout, level, now, last, config, activated,
                 flowVars, selectionVars, saveVars>>

\* A command calls decryptInPlace(selectedText, password).
DecryptInPlace(password) ==
    LET parsed == parseInPlaceEncrypted(selectedText)
        decrypted == decryptInPlace(selectedText, password)
    IN  /\ encCall.op = "encryptInPlace"
        /\ decCall.op = "none"
        /\ decCall' = [op |-> "decryptInPlace", password |-> password,
                       result |-> decrypted, parsed |-> parsed,
                       derivedKey |->
                           decryptInPlaceDerivesKey(
                               parsed, Base64Decode(parsed.combinedData)),
                       message |-> decryptSelectionMessage(parsed, decrypted)]
        /\ UNCHANGED <<encCall, produced, fileData, encryptedText, selectedText, drawn>>
        /\ UNCHANGED <<cache, active, timeout, level, now, last, config, activated,
                 flowVars, selectionVars, saveVars>>

\* The file or the selection is closed; the next command starts afresh.
Close ==
    /\ encCall.op # "none"
    /\ encCall' = NoEncCall
    /\ produced' = NoFileData
    /\ fileData' = NoFileData
    /\ encryptedText' = <<>>
    /\ selectedText' = <<>>
    /\ decCall' = NoDecCall
    /\ drawn' = NoDrawn
    /\ UNCHANGED <<cache, active, timeout, level, now, last, config, activated,
                 flowVars, selectionVars, saveVars>>

CryptoNext ==
    \/ \E content \in Plaintexts, password \in Passwords, hint \in FileHints,
          saltSeed \in Seeds, ivSeed \in Seeds :
          EncryptFileContent(content, password, hint, saltSeed, ivSeed)
    \/ \E field \in ByteFields, change \in Changes : Tamper(field, change)
    \/ \E version \in OtherVersions : ChangeVersion(version)
    \/ \E field \in ByteFields : RemoveField(field)
    \/ \E content \in Plaintexts, saltSeed \in Seeds, ivSeed \in Seeds :
          EncryptAndSave(content, saltSeed, ivSeed)
    \/ \E password \in Passwords : DecryptFileData(password)
    \/ \E text \in Plaintexts, password \in Passwords, hint \in Hints,
          showMarker \in BOOLEAN, saltSeed \in Seeds, ivSeed \in Seeds :
          EncryptInPlace(text, password, hint, showMarker, saltSeed, ivSeed)
    \/ \E change \in BlobChanges : TamperMarker(change)
    \/ \E second \in SecondMarkers : SelectSecondMarker(second)
    \/ ParseInPlaceEncrypted
    \/ \E password \in Passwords : DecryptInPlace(password)
    \/ Close

CryptoSpec == CryptoInit /\ [][CryptoNext]_vars

(***************************************************************************)
(* The commands on files and the custom editor.                            *)
(***************************************************************************)
\* The seed of the salt and of the iv in the commands on files.
FileSeed == 1

\* The texts typed into the custom editor: 'yo'.
EditorTexts == {<<121, 111>>}

\* What is typed into the password prompts of the commands on files: 'p1'
\* and 'p2', each with the hint 'h'.
FilePasswords ==
    { [password |-> <<112, 49>>, hint |-> <<104>>],
      [password |-> <<112, 50>>, hint |-> <<104>>] }

\* How the quick pick of decryptCurrentFile and the warning of decryptToFile
\* after it are answered.
DecryptAnswers ==
    {[option |-> "memory", after |-> "Got it"],
     [option |-> "file", after |-> "Keep Both"],
     [option |-> "file", after |-> "Delete Encrypted"]}

FlowInit == Init /\ config = DefaultConfig

\* The cache after passwordService.get(filePath), and after put on top of it
\* where rememberPassword is set.
CacheAfterGet(filePath) == getResult(cache, timeout, level, now, filePath).cache
CacheAfterPut(passwordAndHint, filePath) ==
    IF config.rememberPassword
    THEN putResult(CacheAfterGet(filePath), active, level, now,
                   passwordAndHint, filePath)
    ELSE CacheAfterGet(filePath)

\* createEncryptedFile(uri), the name NewMdEnc and passwordResult having
\* been typed.
CreateEncryptedFile(passwordResult) ==
    LET created == encryptFileContent(<<>>, passwordResult.password,
                                      Some(passwordResult.hint),
                                      FileSeed, FileSeed)
    IN  /\ disk[NewMdEnc].kind = "none"
        /\ disk' = [disk EXCEPT ![NewMdEnc] = JsonFile(created)]
        /\ written' = Write("createEncryptedFile", NewMdEnc,
                            JsonFile(created), <<>>)
        /\ cache' = CacheAfterPut(passwordResult, NewMdEnc)
        /\ UNCHANGED <<active, timeout, level, now, last, config, activated>>
        /\ UNCHANGED <<cryptoVars, selectionVars, saveVars, webview>>

\* encryptCurrentFile() on the document at filePath, confirmed, with
\* passwordResult typed and the question about the original answered.
EncryptCurrentFile(filePath, passwordResult, deleteOriginal) ==
    LET encrypted == encryptFileContent(disk[filePath].text,
                                        passwordResult.password,
                                        Some(passwordResult.hint),
                                        FileSeed, FileSeed)
    IN  /\ disk[filePath].kind = "text"
        /\ encryptedPath(filePath) \in DiskPaths
        /\ ~isEncryptedFile(filePath)
        /\ disk' = [disk EXCEPT
                      ![encryptedPath(filePath)] = JsonFile(encrypted),
                      ![filePath] = IF deleteOriginal THEN NoFile ELSE @]
        /\ written' = Write("encryptCurrentFile", encryptedPath(filePath),
                            JsonFile(encrypted), <<>>)
        /\ cache' = CacheAfterPut(passwordResult, encryptedPath(filePath))
        /\ UNCHANGED <<active, timeout, level, now, last, config, activated>>
        /\ UNCHANGED <<cryptoVars, selectionVars, saveVars, webview>>

\* decryptCurrentFile(uri) on the file at filePath stops before the
\* password is asked: the path is not one of an encrypted file.
DecryptCurrentFileRefused(filePath) ==
    /\ disk[filePath].kind # "none"
    /\ ~isEncryptedFile(filePath)
    /\ UNCHANGED <<cache, active, timeout, level, now, last, config, activated>>
    /\ UNCHANGED <<cryptoVars, selectionVars, saveVars, disk, written, webview>>

\* decryptCurrentFile(uri) on the file at filePath, with passwordResult
\* typed and the quick pick and the warning of decryptToFile answered.
DecryptCurrentFile(filePath, passwordResult, answers) ==
    LET decryptedContent ==
            decryptFileData(disk[filePath].data, passwordResult.password)
    IN  /\ disk[filePath].kind = "json"
        /\ isEncryptedFile(filePath)
        /\ IF decryptedContent = Null
           THEN /\ cache' = CacheAfterGet(filePath)
                /\ UNCHANGED <<disk, written>>
           ELSE IF answers.option = "memory"
           THEN /\ cache' = CacheAfterPut(passwordResult, filePath)
                /\ UNCHANGED <<disk, written>>
           ELSE /\ disk' = [disk EXCEPT
                              ![decryptedPath(filePath)] =
                                  TextFile(decryptedContent.value),
                              ![filePath] = IF answers.after = "Delete Encrypted"
                                            THEN NoFile ELSE @]
                /\ written' = Write("decryptToFile", decryptedPath(filePath),
                                    TextFile(decryptedContent.value), filePath)
                /\ cache' = CacheAfterPut(passwordResult, filePath)
        /\ UNCHANGED <<active, timeout, level, now, last, config, activated>>
        /\ UNCHANGED <<cryptoVars, selectionVars, saveVars, webview>>

\* A wrong changePassword: the new password is put into the cache before
\* the current one is verified.
ChangePasswordCachesFirst(filePath, current, new) ==
    LET decryptedContent == decryptFileData(disk[filePath].data, current.password)
        newFileData == encryptFileContent(decryptedContent.value, new.password,
                                          Some(new.hint), FileSeed, FileSeed)
    IN  /\ disk[filePath].kind = "json"
        /\ isEncryptedFile(filePath)
        /\ cache' = IF config.rememberPassword
                    THEN putResult(cache, active, level, now, new, filePath)
                    ELSE cache
        /\ IF decryptedContent = Null
           THEN UNCHANGED <<disk, written>>
           ELSE /\ disk' = [disk EXCEPT ![filePath] = JsonFile(newFileData)]
                /\ written' = Write("changePassword", filePath,
                                    JsonFile(newFileData), filePath)
        /\ UNCHANGED <<active, timeout, level, now, last, config, activated>>
        /\ UNCHANGED <<cryptoVars, selectionVars, saveVars, webview>>

\* changePassword() on the file at filePath, with the current and the new
\* password typed.
ChangePassword(filePath, current, new) ==
    LET decryptedContent == decryptFileData(disk[filePath].data, current.password)
        newFileData == encryptFileContent(decryptedContent.value, new.password,
                                          Some(new.hint), FileSeed, FileSeed)
    IN  /\ disk[filePath].kind = "json"
        /\ isEncryptedFile(filePath)
        /\ IF decryptedContent = Null
           THEN UNCHANGED <<disk, written, cache>>
           ELSE /\ disk' = [disk EXCEPT ![filePath] = JsonFile(newFileData)]
                /\ written' = Write("changePassword", filePath,
                                    JsonFile(newFileData), filePath)
                /\ cache' = IF config.rememberPassword
                            THEN putResult(cache, active, level, now, new, filePath)
                            ELSE cache
        /\ UNCHANGED <<active, timeout, level, now, last, config, activated>>
        /\ UNCHANGED <<cryptoVars, selectionVars, saveVars, webview>>

\* What handleDecrypt leaves: the html of the webview, the text and the
\* password it holds, the password that was typed, and whether the
\* password is put into the cache.
Handled(html, content, password, typed, toCache) ==
    [html |-> html, content |-> content, password |-> password,
     typed |-> typed, put |-> toCache]

\* A wrong handleDecrypt: the password of the cache is tried before the one
\* of the message.
handleDecryptCachedFirst(data, passwordFromCache, cached, prompted) ==
    IF cached.password # <<>> /\ decryptFileData(data, cached.password) # Null
    THEN Handled("editor", decryptFileData(data, cached.password).value,
                 cached.password, <<>>, FALSE)
    ELSE IF decryptFileData(data, passwordFromCache) = Null
    THEN Handled("prompt", <<>>, <<>>, passwordFromCache, FALSE)
    ELSE Handled("editor", decryptFileData(data, passwordFromCache).value,
                 passwordFromCache, passwordFromCache, FALSE)

\* handleDecrypt(webviewPanel, document, fileData, filePath,
\* passwordFromCache): passwordFromCache is message.password, '' where it is
\* missing; cached is passwordService.get(filePath); prompted is what
\* PasswordPrompt.showForDecryption returns where it is shown.  "same" is
\* the html left as it is.
handleDecrypt(data, passwordFromCache, cached, prompted) ==
    LET password == IF passwordFromCache = <<>>
                    THEN cached.password
                    ELSE passwordFromCache
        decryptedContent == decryptFileData(data, password)
        again == decryptFileData(data, prompted.value)
    IN  IF decryptedContent = Null /\ passwordFromCache = <<>>
        THEN IF ~prompted.defined
             THEN Handled("same", <<>>, <<>>, <<>>, FALSE)
             ELSE IF again = Null
             THEN Handled("prompt", <<>>, <<>>, prompted.value, FALSE)
             ELSE Handled("editor", again.value, prompted.value,
                          prompted.value, TRUE)
        ELSE IF decryptedContent = Null
        THEN Handled("prompt", <<>>, <<>>, passwordFromCache, FALSE)
        ELSE Handled("editor", decryptedContent.value, password,
                     passwordFromCache, FALSE)

\* A wrong encryptAndSave: the content is written as it is.
encryptAndSavePlain(data, content, password, saltSeed, ivSeed) ==
    TextFile(content)

\* encryptAndSave(document, filePath, content, password): the file written.
encryptAndSave(data, content, password, saltSeed, ivSeed) ==
    JsonFile(encryptFileContent(content, password, data.hint, saltSeed, ivSeed))

\* resolveCustomTextEditor(document, webviewPanel, token) for the file at
\* filePath.
ResolveCustomTextEditor(filePath) ==
    /\ webview.html = "none"
    /\ disk[filePath].kind = "json"
    /\ isEncryptedFile(filePath)
    /\ webview' = [html |-> "prompt", filePath |-> filePath, content |-> <<>>,
                   password |-> <<>>, by |-> "resolveCustomTextEditor",
                   typed |-> <<>>]
    /\ UNCHANGED <<cache, active, timeout, level, now, last, config, activated>>
    /\ UNCHANGED <<cryptoVars, selectionVars, saveVars, disk, written>>

\* The prompt posts { command: 'decrypt', password }; its script posts no
\* empty password.
HandleDecrypt(password) ==
    LET filePath == webview.filePath
        handled == handleDecrypt(disk[filePath].data, password,
                                 getResult(cache, timeout, level, now, filePath).pair,
                                 Undefined)
    IN  /\ webview.html = "prompt"
        /\ disk[filePath].kind = "json"
        /\ webview' = IF handled.html = "same" THEN webview
                      ELSE [html |-> handled.html, filePath |-> filePath,
                            content |-> handled.content,
                            password |-> handled.password,
                            by |-> "handleDecrypt", typed |-> handled.typed]
        /\ cache' = IF password = <<>>
                    THEN IF handled.put
                         THEN CacheAfterPut([password |-> handled.password,
                                             hint |-> <<>>], filePath)
                         ELSE CacheAfterGet(filePath)
                    ELSE cache
        /\ UNCHANGED <<active, timeout, level, now, last, config, activated>>
        /\ UNCHANGED <<cryptoVars, selectionVars, saveVars, disk, written>>

\* The editor view posts { command: 'save' or 'autoSave', content,
\* password }, the password being the one the view was built with.
HandleSave(content) ==
    LET filePath == webview.filePath
        saved == encryptAndSave(disk[filePath].data, content, webview.password,
                                FileSeed, FileSeed)
    IN  /\ webview.html = "editor"
        /\ disk[filePath].kind = "json"
        /\ disk' = [disk EXCEPT ![filePath] = saved]
        /\ written' = Write("encryptAndSave", filePath, saved, filePath)
        /\ webview' = [webview EXCEPT !.content = content]
        /\ UNCHANGED <<cache, active, timeout, level, now, last, config, activated>>
        /\ UNCHANGED <<cryptoVars, selectionVars, saveVars>>

\* The editor view posts { command: 'changePassword' } and the current and
\* the new password are typed into the prompt.
HandleChangePassword(current, new) ==
    LET filePath == webview.filePath
        decryptedContent == decryptFileData(disk[filePath].data, current.password)
    IN  /\ webview.html = "editor"
        /\ disk[filePath].kind = "json"
        /\ IF decryptedContent = Null
           THEN UNCHANGED <<webview, cache>>
           ELSE /\ webview' = [html |-> "editor", filePath |-> filePath,
                               content |-> decryptedContent.value,
                               password |-> new.password,
                               by |-> "handleChangePassword",
                               typed |-> current.password]
                /\ cache' = IF config.rememberPassword
                            THEN putResult(cache, active, level, now, new, filePath)
                            ELSE cache
        /\ UNCHANGED <<active, timeout, level, now, last, config, activated>>
        /\ UNCHANGED <<cryptoVars, selectionVars, saveVars, disk, written>>

\* The panel of the custom editor is closed.
DisposeWebview ==
    /\ webview.html # "none"
    /\ webview' = NoWebview
    /\ UNCHANGED <<cache, active, timeout, level, now, last, config, activated>>
    /\ UNCHANGED <<cryptoVars, selectionVars, saveVars, disk, written>>

FlowNext ==
    \/ \E passwordResult \in FilePasswords : CreateEncryptedFile(passwordResult)
    \/ \E filePath \in DiskPaths, passwordResult \in FilePasswords,
          deleteOriginal \in BOOLEAN :
          EncryptCurrentFile(filePath, passwordResult, deleteOriginal)
    \/ \E filePath \in DiskPaths : DecryptCurrentFileRefused(filePath)
    \/ \E filePath \in DiskPaths, passwordResult \in FilePasswords,
          answers \in DecryptAnswers :
          DecryptCurrentFile(filePath, passwordResult, answers)
    \/ \E filePath \in DiskPaths, current \in FilePasswords :
          \E new \in FilePasswords \ {current} :
             ChangePassword(filePath, current, new)
    \/ \E filePath \in DiskPaths : ResolveCustomTextEditor(filePath)
    \/ \E passwordResult \in FilePasswords :
          HandleDecrypt(passwordResult.password)
    \/ \E content \in EditorTexts : HandleSave(content)
    \/ \E current \in FilePasswords :
          \E new \in FilePasswords \ {current} :
             HandleChangePassword(current, new)
    \/ DisposeWebview

FlowSpec == FlowInit /\ [][FlowNext]_vars

(***************************************************************************)
(* The commands on the selection and the decrypt panel.                    *)
(***************************************************************************)
\* How many answers one run of a password prompt is given.
MaxAnswers == 3

\* How many times 'Save Changes' is pressed in the decrypt panel.
MaxSaves == 2

\* What is typed into one input box: 'p1', 'p2' or nothing; Undefined is
\* the box dismissed.
BoxAnswers == {Undefined, Some(<<>>), Some(<<112, 49>>), Some(<<112, 50>>)}

\* The answers given to the boxes of one prompt, in the order of the boxes.
AnswerSeqs == [1..MaxAnswers -> BoxAnswers]

\* The contents saved from the decrypt panel: 'hi' and 'hiya', whose
\* markers differ in length.
PanelTexts == {<<104, 105>>, <<104, 105, 121, 97>>}

\* MultiStepInput.showInputBox(options): answers[i] is what the next
\* vscode.window.showInputBox resolves to, Undefined for a dismissed box; a
\* box is dismissed once the answers are used up.  validate is "nonEmpty",
\* "equals" (to against) or "none"; next is the first answer not read.
RECURSIVE showInputBox(_, _, _, _)
showInputBox(answers, i, validate, against) ==
    IF i > Len(answers) \/ ~answers[i].defined
    THEN [result |-> <<>>, next |-> i + 1]
    ELSE IF \/ validate = "nonEmpty" /\ answers[i].value = <<>>
            \/ validate = "equals" /\ answers[i].value # against
    THEN showInputBox(answers, i + 1, validate, against)
    ELSE [result |-> answers[i].value, next |-> i + 1]

\* A wrong showForEncryption: the confirmation is not compared with the
\* password.
showForEncryptionAnyConfirmation(options, answers) ==
    LET first == showInputBox(answers, 1, "nonEmpty", <<>>)
        second == showInputBox(answers, first.next, "nonEmpty", <<>>)
        third == showInputBox(answers, second.next, "none", <<>>)
    IN  IF first.result = <<>> \/ second.result = <<>>
        THEN [confirmed |-> FALSE, password |-> <<>>,
              hint |-> options.defaultHint]
        ELSE [confirmed |-> TRUE, password |-> first.result,
              hint |-> third.result]

\* PasswordPrompt.showForEncryption(options), the boxes answered by answers.
showForEncryption(options, answers) ==
    LET first == showInputBox(answers, 1, "nonEmpty", <<>>)
        second == showInputBox(answers, first.next, "equals", first.result)
        third == showInputBox(answers,
                              IF options.confirmPassword
                              THEN second.next ELSE first.next,
                              "none", <<>>)
    IN  IF first.result = <<>>
        THEN [confirmed |-> FALSE, password |-> <<>>,
              hint |-> options.defaultHint]
        ELSE IF options.confirmPassword /\ second.result = <<>>
        THEN [confirmed |-> FALSE, password |-> <<>>,
              hint |-> options.defaultHint]
        ELSE [confirmed |-> TRUE, password |-> first.result,
              hint |-> third.result]

\* edit.replace(uri, new Range(start, end), text) applied to the document;
\* a range that reaches past the end of the document is cut at its end.
Replace(text, start, end, new) ==
    LET from == IF start > Len(text) THEN Len(text) ELSE start
        to == IF end > Len(text) THEN Len(text) ELSE end
    IN  SubSeq(text, 1, from) \o new \o SubSeq(text, to + 1, Len(text))

\* The selection of the editor in the document as it is opened: 'hi'.
SelectionStart == Len(TextBefore)
SelectionEnd == Len(TextBefore) + Len(DocText)
Selected == SubSeq(document, SelectionStart + 1, SelectionEnd)

\* selectedText.includes('🔐')
IncludesMarker(text) == \E i \in 1..Len(text) : LiteralAt(text, i, Marker)

\* [^🔐]* in a regular expression without the u flag, from position i: the
\* first position that holds a half of the marker's surrogate pair.
RECURSIVE OtherRunEnd(_, _)
OtherRunEnd(text, i) ==
    IF i <= Len(text) /\ text[i] # MarkerHigh /\ text[i] # MarkerLow
    THEN OtherRunEnd(text, i + 1)
    ELSE i

NoRange == [matched |-> FALSE, start |-> 0, end |-> 0]

\* A match of prefix [^🔐]* suffix that starts at position i, as offsets.
RangeAt(text, i, prefix, suffix) ==
    LET runEnd == OtherRunEnd(text, i + Len(prefix))
    IN  IF LiteralAt(text, i, prefix) /\ LiteralAt(text, runEnd, suffix)
        THEN [matched |-> TRUE, start |-> i - 1,
              end |-> runEnd + Len(suffix) - 1]
        ELSE NoRange

\* text.match(pattern) for prefix [^🔐]* suffix: the leftmost match.
MatchRange(text, prefix, suffix) ==
    LET starts == {i \in 1..Len(text) : RangeAt(text, i, prefix, suffix).matched}
    IN  IF starts = {} THEN NoRange
        ELSE RangeAt(text, CHOOSE i \in starts : \A j \in starts : i <= j,
                     prefix, suffix)

\* findEncryptedTextAtCursor(editor), the cursor being at the start of the
\* first marker of the line: the leftmost match of either form, the form
\* without the comment token tried first at each position.
findEncryptedTextAtCursor(text) ==
    LET visible == MatchRange(text, Marker, Marker)
        hidden == MatchRange(text, CommentToken \o Marker,
                             Marker \o CommentToken)
    IN  IF ~visible.matched THEN hidden
        ELSE IF ~hidden.matched THEN visible
        ELSE IF hidden.start < visible.start THEN hidden
        ELSE visible

\* A wrong findEncryptedMarkerRange: the form with the comment token is
\* looked for first.
findEncryptedMarkerRangeHiddenFirst(text) ==
    LET visible == MatchRange(text, Marker, Marker)
        hidden == MatchRange(text, CommentToken \o Marker,
                             Marker \o CommentToken)
    IN  IF hidden.matched THEN hidden ELSE visible

\* findEncryptedMarkerRange(text)
findEncryptedMarkerRange(text) ==
    LET visible == MatchRange(text, Marker, Marker)
        hidden == MatchRange(text, CommentToken \o Marker,
                             Marker \o CommentToken)
    IN  IF visible.matched THEN visible ELSE hidden

\* encryptSelection() with 'hi' selected, and performEncryption after it:
\* confirmPassword and showMarker are the settings as getConfiguration()
\* returns them, answers what is typed into the prompt.
EncryptSelection(confirmPassword, showMarker, answers) ==
    LET cached == getResult(cache, timeout, level, now, EditorPath).pair
        result == showForEncryption(
                      [confirmPassword |-> confirmPassword,
                       defaultPassword |-> cached.password,
                       defaultHint |-> cached.hint], answers)
        encrypted == encryptInPlace(Selected, result.password,
                                    Some(result.hint), showMarker,
                                    FileSeed, FileSeed)
    IN  /\ command = NoCommand
        /\ document = EditorText
        /\ ~IncludesMarker(Selected)
        /\ IF result.confirmed
           THEN /\ document' = Replace(document, SelectionStart, SelectionEnd,
                                       encrypted)
                /\ cache' = CacheAfterPut([password |-> result.password,
                                           hint |-> result.hint], EditorPath)
           ELSE /\ document' = document
                /\ cache' = CacheAfterGet(EditorPath)
        /\ command' = [by |-> "performEncryption",
                       confirmPassword |-> confirmPassword,
                       answers |-> answers,
                       confirmed |-> result.confirmed,
                       password |-> result.password, hint |-> result.hint,
                       encrypted |-> IF result.confirmed THEN encrypted
                                     ELSE <<>>,
                       put |-> result.confirmed /\ config.rememberPassword]
        /\ UNCHANGED <<active, timeout, level, now, last, config, activated>>
        /\ UNCHANGED <<cryptoVars, flowVars, saveVars, panel>>

\* What showDecryptedContent(editor, selection, encryptedText,
\* decryptedText, password, hint) leaves in DecryptPanel.currentPanel, text
\* being its encryptedText and marked config.showMarkerWhenReading: the
\* range is the one of the marker at that moment.
showDecryptedContent(selection, text, decryptedText, password, hint, marked) ==
    LET markerRange == findEncryptedMarkerRange(text)
    IN  [open |-> TRUE, content |-> decryptedText,
         start |-> IF markerRange.matched
                   THEN selection.start + markerRange.start
                   ELSE selection.start,
         end |-> IF markerRange.matched
                 THEN selection.start + markerRange.end
                 ELSE selection.end,
         password |-> password, hint |-> hint, showMarker |-> marked,
         saved |-> Undefined, saves |-> panel.saves]

\* parsed.hint ?? ''
HintOrEmpty(parsed) == IF parsed.hint.defined THEN parsed.hint.value ELSE <<>>

\* A wrong decryptSelection: the password typed is put into the cache before
\* it is tried.
decryptSelectionStoresFirst(cached, byCache, prompted, decrypted) ==
    IF cached.password # <<>> /\ byCache # Null /\ byCache.value # <<>>
    THEN [shown |-> TRUE, password |-> cached.password,
          content |-> byCache.value, stored |-> FALSE]
    ELSE IF ~prompted.defined
    THEN [shown |-> FALSE, password |-> <<>>, content |-> <<>>,
          stored |-> FALSE]
    ELSE IF decrypted = Null
    THEN [shown |-> FALSE, password |-> prompted.value, content |-> <<>>,
          stored |-> TRUE]
    ELSE [shown |-> TRUE, password |-> prompted.value,
          content |-> decrypted.value, stored |-> TRUE]

\* The way decryptSelection() takes once the text has parsed: cached is
\* passwordService.get(filePath), byCache what the cached password
\* decrypts the text to, prompted what PasswordPrompt.showForDecryption
\* returns where it is shown, decrypted what its password decrypts the
\* text to.  shown: showDecryptedContent is reached; stored: the line of
\* passwordService.put is reached.
decryptSelection(cached, byCache, prompted, decrypted) ==
    IF cached.password # <<>> /\ byCache # Null /\ byCache.value # <<>>
    THEN [shown |-> TRUE, password |-> cached.password,
          content |-> byCache.value, stored |-> FALSE]
    ELSE IF ~prompted.defined
    THEN [shown |-> FALSE, password |-> <<>>, content |-> <<>>,
          stored |-> FALSE]
    ELSE IF decrypted = Null
    THEN [shown |-> FALSE, password |-> prompted.value, content |-> <<>>,
          stored |-> FALSE]
    ELSE [shown |-> TRUE, password |-> prompted.value,
          content |-> decrypted.value, stored |-> TRUE]

\* What decryptSelection() leaves, taken the way outcome.
DecryptSelectionEnds(found, text, parsed, outcome, showMarker) ==
    /\ parsed.matched
    /\ panel' = IF outcome.shown
                THEN showDecryptedContent(found, text, outcome.content,
                                          outcome.password, parsed.hint,
                                          showMarker)
                ELSE panel
    /\ cache' = IF outcome.stored
                THEN CacheAfterPut([password |-> outcome.password,
                                    hint |-> HintOrEmpty(parsed)], EditorPath)
                ELSE CacheAfterGet(EditorPath)
    /\ command' = [by |-> "decryptSelection", confirmPassword |-> FALSE,
                   answers |-> <<>>, confirmed |-> outcome.shown,
                   password |-> outcome.password,
                   hint |-> HintOrEmpty(parsed), encrypted |-> text,
                   put |-> outcome.stored /\ config.rememberPassword]

\* decryptSelection() on the text of the marker found.
DecryptSelectionOf(found, text, cached, prompted, showMarker) ==
    DecryptSelectionEnds(
        found, text, parseInPlaceEncrypted(text),
        decryptSelection(cached, decryptInPlace(text, cached.password),
                         prompted, decryptInPlace(text, prompted.value)),
        showMarker)

\* decryptSelection() with the marker found at the cursor.
DecryptSelectionAt(found, cached, prompted, showMarker) ==
    /\ found.matched
    /\ DecryptSelectionOf(found, SubSeq(document, found.start + 1, found.end),
                          cached, prompted, showMarker)

\* decryptSelection() with the cursor at the first marker: prompted is what
\* PasswordPrompt.showForDecryption returns where it is shown, showMarker
\* the setting as getConfiguration() returns it.
DecryptSelection(prompted, showMarker) ==
    /\ command = NoCommand
    /\ DecryptSelectionAt(findEncryptedTextAtCursor(document),
                          getResult(cache, timeout, level, now, EditorPath).pair,
                          prompted, showMarker)
    /\ UNCHANGED <<active, timeout, level, now, last, config, activated>>
    /\ UNCHANGED <<cryptoVars, flowVars, saveVars, document>>

\* The panel posts { command: 'save', content }: onSave(newContent).
PanelSave(newContent) ==
    LET reEncrypted == encryptInPlace(newContent, panel.password, panel.hint,
                                      panel.showMarker, FileSeed, FileSeed)
    IN  /\ command = NoCommand
        /\ panel.open
        /\ panel.saves < MaxSaves
        /\ document' = Replace(document, panel.start, panel.end, reEncrypted)
        /\ panel' = [panel EXCEPT !.saved = Some(newContent),
                                  !.saves = @ + 1]
        /\ UNCHANGED <<cache, active, timeout, level, now, last, config,
                       activated, command>>
        /\ UNCHANGED <<cryptoVars, flowVars, saveVars>>

\* The panel posts { command: 'decryptInPlace' }: onDecryptInPlace().
PanelDecryptInPlace ==
    /\ command = NoCommand
    /\ panel.open
    /\ document' = Replace(document, panel.start, panel.end, panel.content)
    /\ panel' = [NoPanel EXCEPT !.saves = panel.saves]
    /\ UNCHANGED <<cache, active, timeout, level, now, last, config,
                   activated, command>>
    /\ UNCHANGED <<cryptoVars, flowVars, saveVars>>

\* The decrypt panel is closed.
DisposePanel ==
    /\ command = NoCommand
    /\ panel.open
    /\ panel' = [NoPanel EXCEPT !.saves = panel.saves]
    /\ UNCHANGED <<cache, active, timeout, level, now, last, config,
                   activated, command, document>>
    /\ UNCHANGED <<cryptoVars, flowVars, saveVars>>

\* clearPasswordCache()
ClearPasswordCache ==
    /\ command = NoCommand
    /\ cache' = clearResult(cache).cache
    /\ command' = [NoCommand EXCEPT !.by = "clearPasswordCache"]
    /\ UNCHANGED <<active, timeout, level, now, last, config, activated>>
    /\ UNCHANGED <<cryptoVars, flowVars, saveVars, document, panel>>

\* The command that has just run has returned to the extension host.
CommandReturns ==
    /\ command # NoCommand
    /\ command' = NoCommand
    /\ UNCHANGED <<cache, active, timeout, level, now, last, config,
                   activated, document, panel>>
    /\ UNCHANGED <<cryptoVars, flowVars, saveVars>>

SelectionInit == Init /\ config = DefaultConfig

\* The password prompt of performEncryption under every run of answers.
PromptNext ==
    \/ \E confirmPassword \in BOOLEAN, showMarker \in BOOLEAN,
          answers \in AnswerSeqs :
          EncryptSelection(confirmPassword, showMarker, answers)
    \/ CommandReturns

PromptSpec == SelectionInit /\ [][PromptNext]_vars

\* The prompt of performEncryption answered with 'p1' twice and then with
\* no hint or with the hint 'h'.
SelectionAnswers ==
    { <<Some(<<112, 49>>), Some(<<112, 49>>), Some(<<>>)>>,
      <<Some(<<112, 49>>), Some(<<112, 49>>), Some(<<104>>)>> }

SelectionNext ==
    \/ \E showMarker \in BOOLEAN, answers \in SelectionAnswers :
          EncryptSelection(TRUE, showMarker, answers)
    \/ ClearPasswordCache
    \/ CommandReturns
    \/ \E prompted \in {Undefined, Some(<<112, 49>>), Some(<<112, 50>>)},
          showMarker \in BOOLEAN :
          DecryptSelection(prompted, showMarker)
    \/ \E newContent \in PanelTexts : PanelSave(newContent)
    \/ PanelDecryptInPlace
    \/ DisposePanel

SelectionSpec == SelectionInit /\ [][SelectionNext]_vars

(***************************************************************************)
(* The decrypt flows together: the commands, the custom editor and the     *)
(* document provider.                                                      *)
(***************************************************************************)
\* What PasswordPrompt.showForDecryption returns in decryptSelection and in
\* handleDecrypt: null, 'p1' or 'p3'.
DecryptPrompts == {Undefined, Some(<<112, 49>>), Some(<<112, 51>>)}

\* The webview posts { command: 'decrypt' } with no password, and prompted
\* is what PasswordPrompt.showForDecryption returns where handleDecrypt shows
\* it: the hint put is cached.hint || (fileData.hint ?? '').
HandleDecryptPrompted(prompted) ==
    LET filePath == webview.filePath
        cached == getResult(cache, timeout, level, now, filePath).pair
        handled == handleDecrypt(disk[filePath].data, <<>>, cached, prompted)
        fileHint == disk[filePath].data.hint
        hint == IF cached.hint # <<>> THEN cached.hint
                ELSE IF fileHint.defined THEN fileHint.value ELSE <<>>
    IN  /\ webview.html = "prompt"
        /\ disk[filePath].kind = "json"
        /\ webview' = IF handled.html = "same" THEN webview
                      ELSE [html |-> handled.html, filePath |-> filePath,
                            content |-> handled.content,
                            password |-> handled.password,
                            by |-> "handleDecrypt", typed |-> handled.typed]
        /\ cache' = IF handled.put
                    THEN CacheAfterPut([password |-> handled.password,
                                        hint |-> hint], filePath)
                    ELSE CacheAfterGet(filePath)
        /\ UNCHANGED <<active, timeout, level, now, last, config, activated>>
        /\ UNCHANGED <<cryptoVars, selectionVars, saveVars, disk, written>>

\* EncryptedDocumentProvider.handlePasswordMessage(webviewPanel, message)
\* with message = { command: 'decrypt', password, realPath, uri }.
HandlePasswordMessage(realPath, password) ==
    LET encryptedData == disk[realPath].data
        decryptedContent == decryptFileData(encryptedData, password)
        hint == IF encryptedData.hint.defined THEN encryptedData.hint.value
                ELSE <<>>
    IN  /\ disk[realPath].kind = "json"
        /\ cache' = IF decryptedContent = Null
                    THEN cache
                    ELSE putResult(cache, active, level, now,
                                   [password |-> password, hint |-> hint],
                                   realPath)
        /\ UNCHANGED <<active, timeout, level, now, last, config, activated>>
        /\ UNCHANGED <<cryptoVars, selectionVars, saveVars, disk, written,
                       webview>>

DecryptNext ==
    \/ \E passwordResult \in FilePasswords : CreateEncryptedFile(passwordResult)
    \/ \E answers \in SelectionAnswers : EncryptSelection(TRUE, TRUE, answers)
    \/ ClearPasswordCache
    \/ CommandReturns
    \/ \E filePath \in DiskPaths, passwordResult \in FilePasswords :
          DecryptCurrentFile(filePath, passwordResult,
                             [option |-> "memory", after |-> "Got it"])
    \/ \E prompted \in DecryptPrompts : DecryptSelection(prompted, TRUE)
    \/ \E filePath \in DiskPaths : ResolveCustomTextEditor(filePath)
    \/ \E passwordResult \in FilePasswords :
          HandleDecrypt(passwordResult.password)
    \/ \E prompted \in DecryptPrompts : HandleDecryptPrompted(prompted)
    \/ \E realPath \in DiskPaths, passwordResult \in FilePasswords :
          HandlePasswordMessage(realPath, passwordResult.password)
    \/ DisposeWebview
    \/ DisposePanel

DecryptSpec == SelectionInit /\ [][DecryptNext]_vars

(***************************************************************************)
(* The save messages of the custom editor, each handler up to its await of *)
(* the write and the write apart.                                          *)
(***************************************************************************)
\* How many save messages the editor view posts.
MaxSent == 2

\* The texts the editor view posts: 'yo' and 'hi'.
SaveTexts == {<<121, 111>>, <<104, 105>>}

\* The editor view posts { command, content, password }, command being
\* 'save' or 'autoSave': the handler reads the file data, encryptAndSave
\* encrypts the content and calls vscode.workspace.fs.writeFile, which it
\* awaits; the handler of the next message starts before the write is done.
PostSave(saveCommand, content) ==
    LET filePath == webview.filePath
        saved == encryptAndSave(disk[filePath].data, content, webview.password,
                                FileSeed, FileSeed)
    IN  /\ webview.html = "editor"
        /\ disk[filePath].kind = "json"
        /\ Len(sent) < MaxSent
        /\ sent' = Append(sent, [command |-> saveCommand, content |-> content])
        /\ writing' = writing \cup
                        {[n |-> Len(sent) + 1, path |-> filePath, file |-> saved]}
        /\ webview' = [webview EXCEPT !.content = content]
        /\ UNCHANGED <<cache, active, timeout, level, now, last, config, activated>>
        /\ UNCHANGED <<cryptoVars, selectionVars, disk, written>>

\* One of the writes under way is done and the handler awaiting it returns:
\* nothing in the provider orders the writes of two handlers.
WriteFileDone(write) ==
    /\ write \in writing
    /\ disk' = [disk EXCEPT ![write.path] = write.file]
    /\ written' = Write("encryptAndSave", write.path, write.file, write.path)
    /\ writing' = writing \ {write}
    /\ UNCHANGED <<cache, active, timeout, level, now, last, config, activated>>
    /\ UNCHANGED <<cryptoVars, selectionVars, webview, sent>>

SaveNext ==
    \/ \E passwordResult \in FilePasswords : CreateEncryptedFile(passwordResult)
    \/ \E filePath \in DiskPaths : ResolveCustomTextEditor(filePath)
    \/ \E passwordResult \in FilePasswords :
          HandleDecrypt(passwordResult.password)
    \/ \E saveCommand \in {"save", "autoSave"}, content \in SaveTexts :
          PostSave(saveCommand, content)
    \/ \E write \in writing : WriteFileDone(write)

SaveSpec == FlowInit /\ [][SaveNext]_vars

(***************************************************************************)
(* The claims about EncryptionService, checked under CryptoSpec.           *)
(***************************************************************************)
\* decryptFileData has returned for the file as encryptFileContent wrote it,
\* called with the password the file was encrypted with.
DecryptedAsEncrypted ==
    /\ encCall.op = "encryptFileContent"
    /\ decCall.op = "decryptFileData"
    /\ fileData = produced
    /\ decCall.password = encCall.password

\* C1, as stated: for every plaintext P, every password W and every
\* optional hint, decryptFileData(encryptFileContent(P, W, hint), W) returns
\* exactly P and not null.
C1_Original ==
    DecryptedAsEncrypted => decCall.result = Str(encCall.content)

\* C1, amended: for every plaintext P that holds no unpaired surrogate,
\* every password W and every optional hint,
\* decryptFileData(encryptFileContent(P, W, hint), W) returns exactly P and
\* not null.
C1_RoundTrip ==
    DecryptedAsEncrypted /\ WellFormed(encCall.content)
        => decCall.result = Str(encCall.content)

\* A text of a non-ASCII character and one outside the basic plane, stored
\* with a hint, has been encrypted and decrypted to itself.
C1_Witness ==
    /\ DecryptedAsEncrypted
    /\ encCall.content = <<233, 8364>>
    /\ encCall.hint.defined
    /\ decCall.result = Str(<<233, 8364>>)

\* C2, as stated: decryptFileData returns null whenever the password differs
\* from the one used to encrypt, or the ciphertext, salt, iv or authTag
\* differs from what encryption produced; a plaintext is released only when
\* all of them match.
C2_NullUnlessAllMatch ==
    encCall.op = "encryptFileContent" /\ decCall.op = "decryptFileData"
        => \/ decCall.result = Null
           \/ /\ decCall.password = encCall.password
              /\ \A field \in ByteFields : fileData[field] = produced[field]

\* C3, as stated: for every text, password W, hint and both values of
\* showMarker, parseInPlaceEncrypted(encryptInPlace(text, W, hint,
\* showMarker)) returns a result whose hint equals the given hint, and
\* decryptInPlace of that marker with W returns text.
C3_MarkerRoundTrip ==
    (encCall.op = "encryptInPlace" /\ selectedText = encryptedText)
        => /\ decCall.op = "parseInPlaceEncrypted"
                => decCall.parsed.matched /\ decCall.parsed.hint = encCall.hint
           /\ decCall.op = "decryptInPlace" /\ decCall.password = encCall.password
                => decCall.result = Str(encCall.content)

(***************************************************************************)
(* The claims about the password cache, checked under CacheSpec.           *)
(***************************************************************************)
\* What get and has return in the current state, and in the next one.
Get(f) == getResult(cache, timeout, level, now, f).pair
Has(f) == hasResult(cache, timeout, level, now, f)
GetNext(f) == getResult(cache', timeout', level', now', f).pair
HasNext(f) == hasResult(cache', timeout', level', now', f)
Size(m) == Cardinality(DOMAIN m)

\* C4: while the cache is active, right after put({password, hint}, f), with
\* no other operation and no time in between, get(f) returns exactly that
\* pair and has(f) returns true, at every level and timeout.
C4_GetAfterPut ==
    (last.op = "put" /\ active) =>
        /\ Get(last.filePath) = last.pair
        /\ Has(last.filePath)

C4_Witness ==
    /\ last.op = "put"
    /\ active
    /\ level = "folder"
    /\ timeout = 1
    /\ last.pair.hint # <<>>
    /\ Size(cache) = 2

\* C5: with timeout > 0, an entry that is more than timeout minutes old is
\* reported like an entry that was never stored: get returns the empty pair
\* and has returns false, whether the entry is still in the map (no sweep or
\* get has removed it yet) or not.
C5_ExpiredLikeAbsent ==
    timeout > 0 =>
        /\ \A f \in Paths :
              LET key == getCacheKey(level, f)
              IN  (\/ key \notin DOMAIN cache
                   \/ now - cache[key].timestamp > timeout * 60000)
                  => /\ Get(f) = EmptyPasswordAndHint
                     /\ Get(f) = getResult(EmptyCache, timeout, level, now, f).pair
                     /\ ~Has(f)
        /\ (last.op = "get" /\ last.branch # "hit")
              => last.pair = EmptyPasswordAndHint

C5_Witness ==
    /\ timeout > 0
    /\ last.op = "get"
    /\ last.branch = "expired"
    /\ last.pair = EmptyPasswordAndHint
    /\ \E f \in Paths :
          LET key == getCacheKey(level, f)
          IN  /\ key \in DOMAIN cache
              /\ now - cache[key].timestamp > timeout * 60000

\* C6: with level 'file' a put for one path changes what get and has return
\* for no other path; with level 'workspace' a put for any path makes get
\* return the entry put, and has return true, for every path.
C6_Scoping ==
    [][ last'.op = "put" =>
          /\ level = "file" =>
                \A y \in Paths \ {last'.filePath} :
                    /\ GetNext(y) = Get(y)
                    /\ HasNext(y) = Has(y)
          /\ (level = "workspace" /\ active) =>
                \A y \in Paths :
                    /\ GetNext(y) = last'.pair
                    /\ HasNext(y)
      ]_vars

C6_Witness ==
    /\ last.op = "put"
    /\ active
    /\ level = "file"
    /\ \E y \in Paths \ {last.filePath} :
          /\ Has(y)
          /\ Get(y) # last.pair

\* C7: clear() returns the number of entries the map held right before the
\* call and leaves the map empty: size 0, every get empty, every has false.
C7_Clear ==
    [][ last'.op = "clear" =>
          /\ last'.count = Size(cache)
          /\ cache' = EmptyCache
          /\ Size(cache') = 0
          /\ \A f \in Paths : GetNext(f) = EmptyPasswordAndHint /\ ~HasNext(f)
      ]_vars

C7_Witness ==
    /\ last.op = "clear"
    /\ last.count = 2
    /\ cache = EmptyCache

\* C8: init(active = false, ...) removes every entry at once, whatever the
\* timeout, the level and the entries' ages; and once the extension is
\* active, a configuration with rememberPassword off goes with an empty
\* cache from the very step that sets it.
C8_InitInactiveClears ==
    [][ /\ (last'.op = "init" /\ ~active') =>
              /\ cache' = EmptyCache
              /\ \A f \in Paths : GetNext(f) = EmptyPasswordAndHint /\ ~HasNext(f)
        /\ (activated' /\ ~config'.rememberPassword) =>
              (~active' /\ cache' = EmptyCache)
      ]_vars

C8_Witness ==
    /\ last.op = "init"
    /\ ~active
    /\ ~config.rememberPassword
    /\ last.count = 2
    /\ now > 0
    /\ cache = EmptyCache

\* C9: whenever the cache is inactive the map is empty, after any sequence
\* of operations; a put while inactive stores nothing.
C9_InactiveIsEmpty ==
    ~active => (cache = EmptyCache /\ Size(cache) = 0)

C9_Witness ==
    /\ last.op = "put"
    /\ ~active
    /\ cache = EmptyCache

\* The entry that get(f) returns now is still returned by get(f) after the
\* step, and has(f) is still true.
StaysRetrievable(f) ==
    LET key == getCacheKey(level, f)
    IN  key \in DOMAIN cache =>
            /\ GetNext(f) = [password |-> cache[key].password,
                             hint |-> cache[key].hint]
            /\ HasNext(f)

\* The step is one of those C10 names as ending an entry's life: clear,
\* clearForFile, a put on the same key, init(active = false).
EndsEntry(f) ==
    \/ last'.op \in {"clear", "clearForFile"}
    \/ last'.op = "init" /\ ~active'
    \/ /\ last'.op = "put"
       /\ getCacheKey(level, last'.filePath) = getCacheKey(level, f)

\* C10 as stated: while timeout is 0, an entry stays retrievable by get
\* through every step other than clear, clearForFile, a put on the same key
\* and init(active = false).
C10_Original ==
    [][ (timeout = 0 /\ timeout' = 0) =>
          \A f \in Paths : ~EndsEntry(f) => StaysRetrievable(f)
      ]_vars

\* C10, amended: while timeout is 0, neither the sweep nor get nor has nor
\* the passing of time removes or hides an entry; it stays retrievable by
\* get through every step other than clear, clearForFile, a put on the same
\* key, init(active = false) and an init that changes the level.
C10_NoExpiryAtZero ==
    [][ (timeout = 0 /\ timeout' = 0) =>
          /\ \A f \in Paths :
                (~EndsEntry(f) /\ level' = level) => StaysRetrievable(f)
          /\ last'.op \in {"sweep", "get", "has", "tick"} => cache' = cache
      ]_vars

C10_Witness ==
    /\ timeout = 0
    /\ last.op = "get"
    /\ last.branch = "hit"
    /\ now >= 2 * 60000
    /\ cache[getCacheKey(level, last.filePath)].timestamp = 0

\* The entry stored for f is older than the timeout allows.
ExpiredFor(f) ==
    LET key == getCacheKey(level, f)
    IN  /\ timeout > 0
        /\ key \in DOMAIN cache
        /\ Expired(cache[key], timeout, now)

\* C11, as stated: has(f) for an expired entry returns false and deletes
\* that entry from the cache, and makes no other change to the cache.
C11_Original ==
    [][ last'.op = "has" =>
          /\ ExpiredFor(last'.filePath) =>
                /\ ~last'.bool
                /\ cache' = MapDelete(cache, getCacheKey(level, last'.filePath))
          /\ ~ExpiredFor(last'.filePath) => cache' = cache
      ]_vars

\* C11, amended: has(f) applies the same test of the entry's age as get(f):
\* it returns true exactly when get(f) returns a stored pair, and false for
\* an expired entry; unlike get it does not delete the expired entry, and
\* it makes no change to the cache at all.
C11_HasOnlyReads ==
    [][ last'.op = "has" =>
          /\ ExpiredFor(last'.filePath) => ~last'.bool
          /\ last'.bool =
                (getResult(cache, timeout, level, now, last'.filePath).branch = "hit")
          /\ cache' = cache
      ]_vars

\* has has returned false for an entry that is expired and still stored.
C11_Witness ==
    /\ last.op = "has"
    /\ ExpiredFor(last.filePath)
    /\ ~last.bool
    /\ getCacheKey(level, last.filePath) \in DOMAIN cache

\* The salt and the iv of the combined blob in a marker that parses.
MarkerSaltAndIv(text) ==
    LET combined == CombinedBlob(text)
    IN  [salt |-> Subarray(combined, 0, SALT_LENGTH),
         iv |-> Subarray(combined, SALT_LENGTH, SALT_LENGTH + IV_LENGTH)]

\* C12: every call of encryptToBase64 generates a new salt and a new iv and
\* none is stored or taken from an earlier call: the salt and the iv of
\* every envelope and marker written, by a first encryption and by the
\* re-encryption of a save alike, are the bytes randomBytes returned in the
\* call that wrote it.
C12_FreshSaltAndIv ==
    /\ encCall.op = "encryptFileContent" =>
          /\ Base64Decode(produced.salt.value) = drawn.salt
          /\ Base64Decode(produced.iv.value) = drawn.iv
          /\ Len(drawn.salt) = SALT_LENGTH
          /\ Len(drawn.iv) = IV_LENGTH
    /\ (encCall.op = "encryptInPlace" /\ ~Truthy(encCall.hint)) =>
          MarkerSaltAndIv(encryptedText) = drawn

\* A save has written an envelope with the salt and the iv drawn for it,
\* the second outcome of randomBytes for both.
C12_Witness ==
    /\ encCall.caller = "encryptAndSave"
    /\ drawn = Drawn(2, 2)
    /\ Base64Decode(fileData.salt.value) = drawn.salt
    /\ Base64Decode(fileData.iv.value) = drawn.iv

\* C13: decrypting an envelope whose version is not '1.0' returns no
\* plaintext, whatever the password and the other fields.
C13_VersionRejected ==
    (decCall.op = "decryptFileData" /\ fileData.version # "1.0")
        => decCall.result = Null /\ ~decCall.derivedKey

\* Some field of bytes is missing from the file.
FieldMissing == \E field \in ByteFields : ~fileData[field].defined

\* C14: an envelope with a required field missing never reaches key
\* derivation and is reported otherwise than an authentication failure.
C14_MalformedReportedApart ==
    (decCall.op = "decryptFileData" /\ FieldMissing)
        => /\ ~decCall.derivedKey
           /\ decCall.message # DecryptionFailedMessage

\* The file is read back with one of its fields of bytes changed.
FileCorrupted ==
    /\ fileData.version = produced.version
    /\ \E field \in ByteFields :
          fileData[field].defined /\ fileData[field] # produced[field]

\* The selection is one marker whose blob has been changed and still
\* parses.
MarkerCorrupted ==
    /\ selectedText # encryptedText
    /\ Len(selectedText) <= Len(encryptedText) + 4
    /\ decCall.parsed.matched

\* C15: a decrypt that fails because of the password and one that fails
\* because the ciphertext, salt, iv or authTag was changed give the same
\* result, null, and the same message: decryptFileData and decryptInPlace
\* return either the text that was encrypted or null, and with null the
\* commands show 'Decryption failed. Wrong password?'.
C15_FailuresAlike ==
    /\ (decCall.op = "decryptFileData"
           /\ (decCall.password # encCall.password \/ FileCorrupted))
          => \/ decCall.result = Null /\ decCall.message = DecryptionFailedMessage
             \/ decCall.result = Str(Utf8Decode(Utf8Encode(encCall.content)))
    /\ (decCall.op = "decryptInPlace" /\ decCall.parsed.matched
           /\ \/ decCall.password # encCall.password /\ selectedText = encryptedText
              \/ MarkerCorrupted)
          => \/ decCall.result = Null /\ decCall.message = DecryptionFailedMessage
             \/ decCall.result = Str(Utf8Decode(Utf8Encode(encCall.content)))
    /\ (decCall.op = "decryptFileData" /\ decCall.password # encCall.password
           /\ fileData = produced)
          => decCall.result = Null
    /\ (decCall.op = "decryptInPlace" /\ decCall.password # encCall.password
           /\ selectedText = encryptedText)
          => decCall.result = Null

\* The right password and a changed salt have given null and the message
\* that a wrong password gives.
C15_Witness ==
    /\ decCall.op = "decryptFileData"
    /\ decCall.password = encCall.password
    /\ fileData.salt # produced.salt
    /\ fileData.salt.defined
    /\ decCall.result = Null
    /\ decCall.message = DecryptionFailedMessage

\* The selection holds the marker encryptInPlace returned, a space and a
\* second marker.
TwoMarkers ==
    /\ encCall.op = "encryptInPlace"
    /\ Len(selectedText) > Len(encryptedText) + 4
    /\ SubSeq(selectedText, 1, Len(encryptedText)) = encryptedText

\* C16: of two markers in a text parseInPlaceEncrypted returns the first,
\* whichever shapes the two have.
C16_FirstMarkerParsed ==
    (decCall.op = "parseInPlaceEncrypted" /\ TwoMarkers)
        => decCall.parsed = parseInPlaceEncrypted(encryptedText)

\* C17: decryptInPlace returns null for a blob of fewer than 48 bytes and
\* derives no key for it; for a blob of 48 bytes or more it derives the key
\* and returns what decryptFromBase64 returns for bytes 0:16 as salt, 16:32
\* as iv, 32:48 as authTag and the rest as ciphertext, so that the 48 bytes
\* of an encrypted empty text decrypt to the empty text.
C17_SplitAtFixedOffsets ==
    (decCall.op = "decryptInPlace" /\ decCall.parsed.matched)
        => LET blob == Base64Decode(decCall.parsed.combinedData)
           IN  /\ Len(blob) < 48 => decCall.result = Null /\ ~decCall.derivedKey
               /\ Len(blob) >= 48 =>
                     /\ decCall.derivedKey
                     /\ decCall.result =
                            decryptFromBase64(
                                Some(Base64Encode(SubSeq(blob, 49, Len(blob)))),
                                decCall.password,
                                Some(Base64Encode(SubSeq(blob, 1, 16))),
                                Some(Base64Encode(SubSeq(blob, 17, 32))),
                                Some(Base64Encode(SubSeq(blob, 33, 48))))
               /\ (Len(blob) = 48 /\ selectedText = encryptedText
                      /\ decCall.password = encCall.password)
                     => decCall.result = Str(<<>>)

\* A blob cut to 47 bytes has given null without a key being derived.
C17_Witness ==
    /\ decCall.op = "decryptInPlace"
    /\ decCall.parsed.matched
    /\ Len(Base64Decode(decCall.parsed.combinedData)) = 47
    /\ decCall.result = Null
    /\ ~decCall.derivedKey

EditorViewSet ==
    /\ webview'.html = "editor"
    /\ \/ webview.html # "editor"
       \/ webview'.by # webview.by
       \/ webview'.password # webview.password

\* The editor view that a step sets holds the text that the password typed
\* in this handling decrypts the file to.
TypedPasswordDecrypts ==
    /\ webview'.typed # <<>>
    /\ decryptFileData(disk[webview'.filePath].data, webview'.typed)
           = Str(webview'.content)

C20_EncryptedPathAccepted ==
    written.by = "encryptCurrentFile"
        => /\ EndsWith(written.path, <<".md", ".enc">>)
           /\ isEncryptedFile(written.path)
           /\ decryptedPath(written.path) = DocMd

(***************************************************************************)
(* The claims about the password prompt of the selection commands, checked *)
(* under PromptSpec.                                                       *)
(***************************************************************************)
\* The box that reads answers[m] is dismissed.
Dismissed(answers, m) == m > Len(answers) \/ ~answers[m].defined

\* The password step is cancelled: nothing but empty entries is typed
\* before a box is dismissed.
PasswordStepCancelled(answers) ==
    \E m \in 1..(Len(answers) + 1) :
       /\ Dismissed(answers, m)
       /\ \A i \in 1..(m - 1) : answers[i] = Some(<<>>)

\* The confirmation step is cancelled: after the first entry that is not
\* empty nothing equal to it is typed before a box is dismissed.
ConfirmationStepCancelled(answers) ==
    \E k \in 1..Len(answers) : \E m \in (k + 1)..(Len(answers) + 1) :
       /\ \A i \in 1..(k - 1) : answers[i] = Some(<<>>)
       /\ answers[k].defined /\ answers[k].value # <<>>
       /\ Dismissed(answers, m)
       /\ \A i \in (k + 1)..(m - 1) : answers[i] # answers[k]

\* No entry of the cache is added or changed.
NoPut == \A key \in DOMAIN cache' : key \in DOMAIN cache /\ cache'[key] = cache[key]

\* C21: with confirmPassword enabled, showForEncryption returns confirmed =
\* true only if the password is not empty and has been typed a second time
\* as the confirmation; if the password step or the confirmation step is
\* cancelled it returns confirmed = false with an empty password, and
\* performEncryption then encrypts nothing, leaves the document and the
\* files as they are and puts nothing into the cache.
C21_ConfirmedOnlyIfRetyped ==
    [][(command = NoCommand /\ command'.by = "performEncryption"
        /\ command'.confirmPassword)
       => /\ command'.confirmed
             => /\ command'.password # <<>>
                /\ \E i, j \in 1..Len(command'.answers) :
                      /\ i < j
                      /\ command'.answers[i] = Some(command'.password)
                      /\ command'.answers[j] = Some(command'.password)
          /\ (\/ PasswordStepCancelled(command'.answers)
              \/ ConfirmationStepCancelled(command'.answers))
             => /\ ~command'.confirmed
                /\ command'.password = <<>>
                /\ command'.encrypted = <<>>
                /\ ~command'.put
                /\ document' = document
                /\ disk' = disk
                /\ NoPut]_vars

\* performEncryption has returned after a confirmation that did not match
\* was typed and then the matching one.
C21_Witness ==
    /\ command.by = "performEncryption"
    /\ command.confirmPassword
    /\ command.confirmed
    /\ command.answers[1] = Some(command.password)
    /\ command.answers[2] # Some(command.password)
    /\ command.answers[3] = Some(command.password)
    /\ document # EditorText

(***************************************************************************)
(* The claims about the sweep, clearForFile and the levels, checked under  *)
(* CacheSpec.                                                              *)
(***************************************************************************)
\* The age of the entry under key exceeds the timeout, in minutes.
TooOld(key) == now - cache[key].timestamp > timeout * 60 * 1000

\* C22: one run of the expiration sweep with timeout > 0 deletes exactly
\* the entries whose age exceeds timeout minutes and leaves every other
\* entry as it is, adding none; and a put or a get for any path gives the
\* same map whether it runs before or after the sweep.
C22_SweepDeletesExactlyExpired ==
    [][ (last'.op = "sweep" /\ timeout > 0) =>
          /\ DOMAIN cache' = {key \in DOMAIN cache : ~TooOld(key)}
          /\ \A key \in DOMAIN cache' : cache'[key] = cache[key]
          /\ \A f \in Paths, ph \in PasswordAndHints :
                putResult(cache', active, level, now, ph, f)
                  = removeExpiredEntries(
                        putResult(cache, active, level, now, ph, f),
                        timeout, now)
          /\ \A f \in Paths :
                getResult(cache', timeout, level, now, f).cache
                  = removeExpiredEntries(
                        getResult(cache, timeout, level, now, f).cache,
                        timeout, now)
      ]_vars

\* A sweep has deleted nothing but the expired: an entry whose age is
\* exactly the timeout is still there.
C22_Witness ==
    /\ last.op = "sweep"
    /\ timeout > 0
    /\ \E key \in DOMAIN cache : now - cache[key].timestamp = timeout * 60 * 1000

\* C23: clearForFile(f) removes exactly the entry stored under the key of f
\* at the current level and leaves every other entry as it is; at level
\* 'workspace' get returns the empty pair for every path afterwards.
C23_ClearForFileRemovesOneKey ==
    [][ last'.op = "clearForFile" =>
          /\ DOMAIN cache' = DOMAIN cache \ {getCacheKey(level, last'.filePath)}
          /\ \A key \in DOMAIN cache' : cache'[key] = cache[key]
          /\ level = "workspace"
             => \A f \in Paths : GetNext(f) = EmptyPasswordAndHint
      ]_vars

\* clearForFile has removed the entry of one file and left the one of
\* another.
C23_Witness ==
    /\ last.op = "clearForFile"
    /\ level # "workspace"
    /\ Cardinality(DOMAIN cache) = 1
    /\ \E f \in Paths : Get(f) # EmptyPasswordAndHint
    /\ Get(last.filePath) = EmptyPasswordAndHint

\* C26: at level 'folder' the key holds the whole file path, so a put for x
\* changes what get and has return for no other path y, whether or not y
\* lies in the same workspace folder as x.
C26_FolderLevelKeepsFilesApart ==
    [][ (last'.op = "put" /\ level = "folder") =>
          \A y \in Paths \ {last'.filePath} :
             /\ GetNext(y) = Get(y)
             /\ HasNext(y) = Has(y)
      ]_vars

\* A put at level 'folder' for one file of the open folder /a, while the
\* other file of /a has an entry with another pair.
C26_Witness ==
    /\ last.op = "put"
    /\ active
    /\ level = "folder"
    /\ \E y \in Paths \ {last.filePath} :
          /\ getWorkspaceFolder(y) # <<>>
          /\ getWorkspaceFolder(y) = getWorkspaceFolder(last.filePath)
          /\ Has(y)
          /\ Get(y) # last.pair
          /\ Get(last.filePath) = last.pair

\* C30: init with caching on leaves the map as it is, whatever the new
\* level: an entry under a key of the old level stays in it, and so is
\* counted by size and clear() and deleted by the sweep once expired; get
\* and has for its path do not find it where the new level gives the path
\* another key that holds nothing; and an entry under the key the new level
\* gives a path is returned if it has not expired, be it there from before
\* a change of level that is now reverted or because both levels give the
\* same key.
C30_LevelChangeKeepsEntries ==
    /\ [][ (last'.op = "init" /\ active') =>
          /\ cache' = cache
          /\ Size(cache') = Size(cache)
          /\ clearResult(cache').count = Size(cache)
          /\ \A f \in Paths :
                LET old == getCacheKey(level, f)
                    new == getCacheKey(level', f)
                IN  /\ (old \in DOMAIN cache /\ new \notin DOMAIN cache)
                       => /\ old \in DOMAIN cache'
                          /\ GetNext(f) = EmptyPasswordAndHint
                          /\ ~HasNext(f)
                    /\ (/\ new \in DOMAIN cache
                        /\ ~(/\ timeout' > 0
                             /\ now - cache[new].timestamp > timeout' * 60 * 1000))
                       => /\ GetNext(f) = [password |-> cache[new].password,
                                           hint |-> cache[new].hint]
                          /\ HasNext(f)
      ]_vars
    /\ [][ (last'.op = "sweep" /\ timeout > 0) =>
             \A key \in DOMAIN cache :
                (TooOld(key) /\ \A f \in Paths : getCacheKey(level, f) # key)
                => key \notin DOMAIN cache'
         ]_vars

\* init has changed the level with caching on, and the map holds an entry
\* that get returns for no path at the new level.
C30_Witness ==
    /\ last.op = "init"
    /\ active
    /\ \E key \in DOMAIN cache : \A f \in Paths : getCacheKey(level, f) # key
    /\ \A f \in Paths : Get(f) = EmptyPasswordAndHint

PutOnly(password) ==
    \A key \in DOMAIN cache' :
       (key \notin DOMAIN cache \/ cache'[key] # cache[key])
           => cache'[key].password = password

\* The text of the marker at the cursor.
MarkerAtCursor ==
    LET found == findEncryptedTextAtCursor(document)
    IN  SubSeq(document, found.start + 1, found.end)

\* C25: a step of a decrypt flow (decryptCurrentFile, decryptSelection,
\* handleDecrypt with a posted password or with a prompted one,
\* handlePasswordMessage) that sets or changes an entry of the cache is a
\* step whose password has decrypted the target, and the entries it sets
\* hold that password: after a failed attempt every entry is as it was.
C25_PutOnlyAfterDecrypt ==
    [][ ~NoPut =>
          /\ \A filePath \in DiskPaths, passwordResult \in FilePasswords,
                answers \in DecryptAnswers :
                DecryptCurrentFile(filePath, passwordResult, answers) =>
                  /\ decryptFileData(disk[filePath].data,
                                     passwordResult.password) # Null
                  /\ PutOnly(passwordResult.password)
          /\ \A prompted \in DecryptPrompts :
                DecryptSelection(prompted, TRUE) =>
                  /\ prompted.defined
                  /\ decryptInPlace(MarkerAtCursor, prompted.value) # Null
                  /\ PutOnly(prompted.value)
          /\ \A passwordResult \in FilePasswords :
                ~HandleDecrypt(passwordResult.password)
          /\ \A prompted \in DecryptPrompts :
                HandleDecryptPrompted(prompted) =>
                  /\ prompted.defined
                  /\ decryptFileData(disk[webview.filePath].data,
                                     prompted.value) # Null
                  /\ PutOnly(prompted.value)
          /\ \A realPath \in DiskPaths, passwordResult \in FilePasswords :
                HandlePasswordMessage(realPath, passwordResult.password) =>
                  /\ decryptFileData(disk[realPath].data,
                                     passwordResult.password) # Null
                  /\ PutOnly(passwordResult.password)
      ]_vars

\* decryptSelection has failed with 'p3' typed while the cache held 'p2',
\* the password of the file, which the cache still returns.
C25_Witness ==
    /\ command.by = "decryptSelection"
    /\ ~command.confirmed
    /\ command.password = <<112, 51>>
    /\ Get(EditorPath).password = <<112, 50>>
    /\ disk[NewMdEnc].kind = "json"

(***************************************************************************)
(* The claim about saving from the decrypt panel, checked under            *)
(* SelectionSpec.                                                          *)
(***************************************************************************)
\* What stands in the document between the text before the selection and
\* the text after it.
BetweenTexts ==
    SubSeq(document, Len(TextBefore) + 1, Len(document) - Len(TextAfter))

\* C27: after a save from the decrypt panel the document is the text before
\* the selection, one marker and the text after the selection, the marker
\* being all of what stands in between and decrypting with the password of
\* the panel to the content saved last.
C27_SaveReplacesTheMarker ==
    (panel.open /\ panel.saved.defined) =>
        /\ Len(document) >= Len(TextBefore) + Len(TextAfter)
        /\ document = TextBefore \o BetweenTexts \o TextAfter
        /\ findEncryptedTextAtCursor(BetweenTexts) =
              [matched |-> TRUE, start |-> 0, end |-> Len(BetweenTexts)]
        /\ decryptInPlace(BetweenTexts, panel.password) =
              Str(panel.saved.value)

(***************************************************************************)
(* The claim about the order of the saves, checked under SaveSpec.         *)
(***************************************************************************)
\* C28: once the handlers of all the save and autoSave messages sent have
\* returned, the file of the custom editor decrypts with the password of
\* the view to the content of the message sent last.
C28_LastSentIsOnDisk ==
    (sent # <<>> /\ writing = {}) =>
        decryptFileData(disk[webview.filePath].data, webview.password)
            = Str(sent[Len(sent)].content)

(***************************************************************************)
(* The claim about the cache after a change of password, checked under     *)
(* FlowSpec.                                                               *)
(***************************************************************************)
\* The envelope at filePath decrypts with the password that the cache
\* returns for it and has the hint that the cache returns.
CachedPairOpens(filePath) ==
    /\ decryptFileData(disk[filePath].data, Get(filePath).password) # Null
    /\ disk[filePath].data.hint = Some(Get(filePath).hint)

\* C29: once handleChangePassword has set the view of the custom editor to
\* the new password, and while the cache returns that password for the
\* file, the envelope on disk decrypts with the cached password and has
\* the cached hint; the same for the file that the changePassword command
\* wrote last, while the cache returns a password that decrypts it.
C29_CacheAgreesWithDisk ==
    /\ ( /\ webview.by = "handleChangePassword"
         /\ disk[webview.filePath].kind = "json"
         /\ Get(webview.filePath).password = webview.password )
       => CachedPairOpens(webview.filePath)
    /\ ( /\ written.by = "changePassword"
         /\ disk[written.path].kind = "json"
         /\ decryptFileData(disk[written.path].data,
                            Get(written.path).password) # Null )
       => CachedPairOpens(written.path)

=============================================================================
